---- MODULE Spec2Model ----
(***************************************************************************)
(* Entitlement state machine of the UTM paywall backend: guest trials,     *)
(* license-key redemption, guest linking and the Stripe checkout webhook,  *)
(* as implemented by routes/paywall.js, routes/stripeWebhooks.js and the   *)
(* Device / UserSubscription / LicenseKey models.  Every `await` on the    *)
(* store is one atomic step of a request; requests of different clients    *)
(* interleave between their steps.                                         *)
(***************************************************************************)
EXTENDS Integers, Sequences, FiniteSets, TLC

VARIABLES now, devices, subs, keys, req, log, budget

vars == <<now, devices, subs, keys, req, log, budget>>

-----------------------------------------------------------------------------
(* Bounds of the model *)

MaxTicks == 1
MaxSlots == 2
MaxOps == 2
MaxBatch == 2
MaxFaults == 1

(* Program constants *)

TrialDays == 3
DayTicks == 2

-----------------------------------------------------------------------------
(* Nullable columns: SQL NULL / JS null is the empty tuple, a value v is <<v>> *)

Null == <<>>
Some(v) == <<v>>
Val(x) == x[1]
Truthy(x) == x # Null

Slots == 1..MaxSlots
Fingerprints == {"fpA", "fpB"}
TrialInputs == Fingerprints \cup {""}

(* HMAC-SHA256 keyed digests: distinct inputs give distinct digests, and a   *)
(* digest is never equal to a plaintext                                      *)
hashDeviceId(deviceId) == <<"hmacDevice", deviceId>>
hashKey(key) == <<"hmacKey", key>>

(* plaintexts LicenseKey.generateKey can draw, and keys a caller can type *)
KeyTexts == {"UTM-AAAA", "UTM-BBBB"}
KeyInputs == KeyTexts \cup {"UTM-ZZZZ"}
(* stripe_plans.plan_key of the seeded catalog *)
PlanKeys == {"pro_monthly", "pro_yearly", "pro_lifetime"}
PlanInputs == {"pro_monthly", "no_such_plan"}
ExpiryInputs == {Null, Some(1)}
(* guest_id of a request: 0 is "not supplied", an id beyond the table is unknown *)
GuestInputs == 0..2
Accounts == {"u1", "u2"}

-----------------------------------------------------------------------------
(* Store queries *)

MaxOf(S) == CHOOSE i \in S : \A j \in S : j <= i

(* the lookup compares the stored digest with the plaintext: it never matches *)
DeviceGetByDeviceIdUnhashed(deviceId) ==
    LET hit == {i \in 1..Len(devices) : devices[i].device_id = <<"plain", deviceId>>}
    IN  IF hit = {} THEN 0 ELSE CHOOSE i \in hit : TRUE

(* Device.getByDeviceId: row id of the device with this hashed fingerprint, or 0 *)
DeviceGetByDeviceId(deviceId) ==
    LET hit == {i \in 1..Len(devices) : devices[i].device_id = hashDeviceId(deviceId)}
    IN  IF hit = {} THEN 0 ELSE CHOOSE i \in hit : TRUE

(* devices.device_id without its UNIQUE constraint *)
DeviceInsertAllowedNoUnique(hashed) == TRUE

(* UNIQUE constraint on devices.device_id *)
DeviceInsertAllowed(hashed) ==
    \A i \in 1..Len(devices) : devices[i].device_id # hashed

(* a trial of a week instead of three days *)
NewDeviceWeek(deviceId, t) ==
    [device_id |-> hashDeviceId(deviceId),
     linked_uid |-> Null,
     trial_start |-> Some(t),
     trial_end |-> Some(t + 7 * DayTicks),
     subscription_status |-> "trial"]

(* Device.create at time t: the inserted row *)
NewDevice(deviceId, t) ==
    [device_id |-> hashDeviceId(deviceId),
     linked_uid |-> Null,
     trial_start |-> Some(t),
     trial_end |-> Some(t + TrialDays * DayTicks),
     subscription_status |-> "trial"]

(* Device.isTrialActive at time t *)
isTrialActive(d, t) ==
    IF d.subscription_status # "trial" \/ ~Truthy(d.trial_end)
    THEN FALSE
    ELSE Val(d.trial_end) > t

(* Device.getTrialDaysRemaining at time t *)
DeviceTrialDaysRemaining(d, t) ==
    IF ~isTrialActive(d, t)
    THEN 0
    ELSE LET diffTime == Val(d.trial_end) - t
             diffDays == (diffTime + DayTicks - 1) \div DayTicks
         IN  IF diffDays > 0 THEN diffDays ELSE 0

(* Device.toPublicJSON at time t *)
DevicePublic(id, t) ==
    [guest_id |-> id,
     trial_start |-> devices[id].trial_start,
     trial_end |-> devices[id].trial_end,
     status |-> devices[id].subscription_status,
     is_trial_active |-> isTrialActive(devices[id], t),
     trial_days_remaining |-> DeviceTrialDaysRemaining(devices[id], t)]

(* a row of user_subscriptions as UserSubscription.create inserts it *)
SubRow(uid, device_id, customer, subscription, plan, status, ts, te) ==
    [uid |-> uid, device_id |-> device_id,
     stripe_customer_id |-> customer, stripe_subscription_id |-> subscription,
     plan_id |-> plan, status |-> status, trial_start |-> ts, trial_end |-> te]

(* the row start-guest-trial creates for device d with row id id *)
TrialSub(id, d) ==
    SubRow(Null, Some(id), Null, Null, Null, "trial", d.trial_start, d.trial_end)

-----------------------------------------------------------------------------
(* Requests in flight *)

Idle == [pc |-> "idle", op |-> "none", a |-> "", g |-> 0, u |-> Null,
         snap |-> Null, acc |-> <<>>, begin |-> 0, wrote |-> 0, made |-> 0]

(* a new request is served by the lowest free slot *)
FreeSlot(r) == req[r].pc = "idle" /\ \A q \in Slots : q < r => req[q].pc # "idle"

(* The log is the history of answered requests, in the order of the answers: *)
(* op and its inputs (a, g, u), the outcome and the answer's body, begin: the *)
(* number of answers sent before the request arrived, wrote / made: how many *)
(* rows the handler wrote / inserted, ev: the status event a webhook request  *)
(* delivered                                                                  *)
Entry(r, out, view) ==
    [op |-> req[r].op, a |-> req[r].a, g |-> req[r].g, u |-> req[r].u,
     out |-> out, view |-> view, begin |-> req[r].begin, wrote |-> req[r].wrote,
     made |-> req[r].made,
     ev |-> IF req[r].pc \in {"se_get", "se_write", "sc_plan", "sc_get", "sc_write"}
            THEN req[r].snap ELSE Null]

(* the response is sent and the handler ends; its last step wrote wroteNow *)
(* rows, madeNow of them new                                               *)
Respond(r, out, view, wroteNow, madeNow) ==
    /\ log' = Append(log, [Entry(r, out, view) EXCEPT !.wrote = @ + wroteNow,
                                                     !.made = @ + madeNow])
    /\ req' = [req EXCEPT ![r] = Idle]

Step(r, pc) == req' = [req EXCEPT ![r].pc = pc]

(* a request arrives: its handler starts at pc with its inputs *)
Arrive(r, op, a, g, u, pc) ==
    req' = [req EXCEPT ![r] = [Idle EXCEPT !.pc = pc, !.op = op, !.a = a, !.g = g,
                                           !.u = u, !.begin = Len(log)]]

(* a request that is answered before its handler touches the store *)
Reject(op, a, g, u, out) ==
    log' = Append(log, [op |-> op, a |-> a, g |-> g, u |-> u, out |-> out,
                        view |-> Null, begin |-> Len(log), wrote |-> 0, made |-> 0,
                        ev |-> Null])

-----------------------------------------------------------------------------
(* POST /api/start-guest-trial *)

StartTrialBegin(r, f) ==
    /\ FreeSlot(r)
    /\ budget.ops > 0
    /\ budget' = [budget EXCEPT !.ops = @ - 1]
    /\ IF f = ""
       THEN Reject("startTrial", f, 0, Null, "ValidationError") /\ req' = req
       ELSE Arrive(r, "startTrial", f, 0, Null, "st_get") /\ log' = log
    /\ UNCHANGED <<now, devices, subs, keys>>

StartTrialGet(r) ==
    /\ req[r].pc = "st_get"
    /\ LET id == DeviceGetByDeviceId(req[r].a)
       IN  IF id # 0
           THEN Respond(r, "ok", Some(DevicePublic(id, now)), 0, 0)
           ELSE Step(r, "st_create") /\ log' = log
    /\ UNCHANGED <<now, devices, subs, keys, budget>>

StartTrialCreate(r) ==
    /\ req[r].pc = "st_create"
    /\ IF DeviceInsertAllowed(hashDeviceId(req[r].a))
       THEN /\ devices' = Append(devices, NewDevice(req[r].a, now))
            /\ req' = [req EXCEPT ![r].pc = "st_sub", ![r].g = Len(devices) + 1,
                                  ![r].wrote = @ + 1, ![r].made = @ + 1]
            /\ log' = log
       ELSE /\ Respond(r, "Error500", Null, 0, 0)
            /\ devices' = devices
    /\ UNCHANGED <<now, subs, keys, budget>>

StartTrialSub(r) ==
    /\ req[r].pc = "st_sub"
    /\ LET d == devices[req[r].g]
       IN  /\ subs' = Append(subs, TrialSub(req[r].g, d))
           /\ Respond(r, "ok", Some(DevicePublic(req[r].g, now)), 1, 1)
    /\ UNCHANGED <<now, devices, keys, budget>>

(* the insert into user_subscriptions fails: the handler answers 500 *)
StartTrialSubFails(r) ==
    /\ req[r].pc = "st_sub"
    /\ budget.faults > 0
    /\ budget' = [budget EXCEPT !.faults = @ - 1]
    /\ Respond(r, "Error500", Null, 0, 0)
    /\ UNCHANGED <<now, devices, subs, keys>>

-----------------------------------------------------------------------------
(* LicenseKey model *)

(* a lookup that compares the stored digest with the plaintext *)
KeyGetByKeyUnhashed(key) ==
    LET hit == {i \in 1..Len(keys) : keys[i].key = key}
    IN  IF hit = {} THEN 0 ELSE CHOOSE i \in hit : TRUE

(* LicenseKey.getByKey: row id of the key with this hashed plaintext, or 0 *)
KeyGetByKey(key) ==
    LET hit == {i \in 1..Len(keys) : keys[i].key = hashKey(key)}
    IN  IF hit = {} THEN 0 ELSE CHOOSE i \in hit : TRUE

(* UNIQUE constraint on license_keys.key *)
KeyInsertAllowed(hashed) ==
    \A i \in 1..Len(keys) : keys[i].key # hashed

(* the row LicenseKey.createMultiple inserts *)
NewKey(key, planId, expiresAt, singleUse) ==
    [key |-> hashKey(key), plan_id |-> planId, expires_at |-> expiresAt,
     single_use |-> singleUse, bound_uid |-> Null, bound_device_id |-> Null,
     redeemed_at |-> Null]

(* a key that is not single_use counts as redeemable again *)
isRedeemedSingleUseOnly(k) == Truthy(k.redeemed_at) /\ k.single_use

isRedeemed(k) == Truthy(k.redeemed_at)

(* the comparison of isExpired reversed *)
isExpiredReversed(k, t) ==
    IF ~Truthy(k.expires_at) THEN FALSE ELSE Val(k.expires_at) >= t

isExpired(k, t) ==
    IF ~Truthy(k.expires_at) THEN FALSE ELSE Val(k.expires_at) <= t

isValidForRedemption(k, t) == ~isRedeemed(k) /\ ~isExpired(k, t)

(* the update LicenseKey.redeem sends: .eq('id', this.id) is its only condition *)
RedeemUpdate(k, boundUid, boundDeviceId, t) ==
    [k EXCEPT !.bound_uid = boundUid, !.bound_device_id = boundDeviceId,
              !.redeemed_at = Some(t)]

(* LicenseKey.toPublicJSON of the instance after redeem *)
KeyPublic(k) ==
    [plan_id |-> k.plan_id, expires_at |-> k.expires_at,
     bound_to |-> IF Truthy(k.bound_uid) THEN k.bound_uid ELSE k.bound_device_id]

-----------------------------------------------------------------------------
(* POST /admin/generate-license-keys *)

GenerateBegin(r, planId, count, expiresAt, singleUse) ==
    /\ FreeSlot(r)
    /\ budget.ops > 0
    /\ budget' = [budget EXCEPT !.ops = @ - 1]
    /\ req' = [req EXCEPT ![r] = [Idle EXCEPT !.pc = "gk_plan", !.op = "generate",
                                          !.a = planId, !.g = count,
                                          !.snap = Some([expiresAt |-> expiresAt,
                                                         singleUse |-> singleUse]),
                                          !.begin = Len(log)]]
    /\ UNCHANGED <<now, devices, subs, keys, log>>

(* StripePlan.getByPlanKey *)
GeneratePlan(r) ==
    /\ req[r].pc = "gk_plan"
    /\ IF req[r].a \in PlanKeys
       THEN Step(r, "gk_insert") /\ log' = log
       ELSE Respond(r, "ValidationError", Null, 0, 0)
    /\ UNCHANGED <<now, devices, subs, keys, budget>>

(* one iteration of the loop of LicenseKey.createMultiple *)
GenerateInsert(r, key) ==
    /\ req[r].pc = "gk_insert"
    /\ LET opt == Val(req[r].snap)
           out == Append(req[r].acc, key)
       IN  IF KeyInsertAllowed(hashKey(key))
           THEN /\ keys' = Append(keys, NewKey(key, req[r].a, opt.expiresAt, opt.singleUse))
                /\ IF Len(out) = req[r].g
                   THEN Respond(r, "ok", Some(out), 1, 1)
                   ELSE /\ req' = [req EXCEPT ![r].acc = out, ![r].wrote = @ + 1,
                                              ![r].made = @ + 1]
                        /\ log' = log
           ELSE /\ Respond(r, "Error500", Null, 0, 0)
                /\ keys' = keys
    /\ UNCHANGED <<now, devices, subs, budget>>

-----------------------------------------------------------------------------
(* POST /api/redeem-license.  The route installs no authentication          *)
(* middleware, so req.user is undefined and uid is undefined in the handler *)

RedeemBegin(r, key, guest) ==
    /\ FreeSlot(r)
    /\ budget.ops > 0
    /\ budget' = [budget EXCEPT !.ops = @ - 1]
    /\ Arrive(r, "redeem", key, guest, Null, "rd_get")
    /\ UNCHANGED <<now, devices, subs, keys, log>>

(* LicenseKey.getByKey, then isValidForRedemption on the row read *)
RedeemGet(r) ==
    /\ req[r].pc = "rd_get"
    /\ LET id == KeyGetByKey(req[r].a)
       IN  IF id = 0
           THEN Respond(r, "InvalidKey", Null, 0, 0)
           ELSE IF ~isValidForRedemption(keys[id], now)
           THEN Respond(r, IF isRedeemed(keys[id]) THEN "AlreadyRedeemed" ELSE "Expired",
                        Null, 0, 0)
           ELSE IF Truthy(req[r].u)
           THEN /\ req' = [req EXCEPT ![r].pc = "rd_redeem",
                                      ![r].snap = Some([id |-> id, row |-> keys[id]])]
                /\ log' = log
           ELSE IF req[r].g # 0
           THEN /\ req' = [req EXCEPT ![r].pc = "rd_device",
                                      ![r].snap = Some([id |-> id, row |-> keys[id]])]
                /\ log' = log
           ELSE Respond(r, "ValidationError", Null, 0, 0)
    /\ UNCHANGED <<now, devices, subs, keys, budget>>

(* Device.getById(guest_id) *)
RedeemDevice(r) ==
    /\ req[r].pc = "rd_device"
    /\ IF req[r].g \in 1..Len(devices)
       THEN Step(r, "rd_redeem") /\ log' = log
       ELSE Respond(r, "InvalidGuest", Null, 0, 0)
    /\ UNCHANGED <<now, devices, subs, keys, budget>>

(* boundUid / boundDeviceId of the handler *)
BoundUid(r) == req[r].u
BoundDeviceId(r) == IF Truthy(req[r].u) THEN Null ELSE Some(req[r].g)

(* licenseKey.redeem(boundUid, boundDeviceId): the checks read the instance *)
(* loaded by RedeemGet, the update is unconditional.  Object.assign(this,   *)
(* data) adds the snake_case columns to the instance, so the camelCase      *)
(* fields the instance answers from stay as they were read                  *)
RedeemRedeem(r) ==
    /\ req[r].pc = "rd_redeem"
    /\ LET k == Val(req[r].snap)
       IN  IF isRedeemed(k.row)
           THEN Respond(r, "AlreadyRedeemed", Null, 0, 0) /\ keys' = keys
           ELSE IF isExpired(k.row, now)
           THEN Respond(r, "Expired", Null, 0, 0) /\ keys' = keys
           ELSE /\ keys' = [keys EXCEPT
                              ![k.id] = RedeemUpdate(@, BoundUid(r), BoundDeviceId(r), now)]
                /\ req' = [req EXCEPT ![r].pc = "rd_sub", ![r].wrote = @ + 1]
                /\ log' = log
    /\ UNCHANGED <<now, devices, subs, budget>>

LicensePlan(planId) == "license_" \o planId

(* UserSubscription.create for the redeemed plan *)
RedeemSub(r) ==
    /\ req[r].pc = "rd_sub"
    /\ LET k == Val(req[r].snap).row
       IN  /\ subs' = Append(subs, SubRow(BoundUid(r), BoundDeviceId(r), Null, Null,
                                          Some(LicensePlan(k.plan_id)), "active",
                                          Null, Null))
           /\ Respond(r, "ok", Some(KeyPublic(k)), 1, 1)
    /\ UNCHANGED <<now, devices, keys, budget>>

RedeemSubFails(r) ==
    /\ req[r].pc = "rd_sub"
    /\ budget.faults > 0
    /\ budget' = [budget EXCEPT !.faults = @ - 1]
    /\ Respond(r, "Error500", Null, 0, 0)
    /\ UNCHANGED <<now, devices, subs, keys>>

-----------------------------------------------------------------------------
(* UserSubscription model *)

(* UserSubscription.getByUid: .order('created_at', desc).limit(1); rows are *)
(* kept in insertion order, so the most recent row is the last one; 0: none *)
SubGetByUid(uid) ==
    LET hit == {i \in 1..Len(subs) : subs[i].uid = Some(uid)}
    IN  IF hit = {} THEN 0 ELSE MaxOf(hit)

(* UserSubscription.getByDeviceId *)
SubGetByDeviceId(deviceId) ==
    LET hit == {i \in 1..Len(subs) : subs[i].device_id = Some(deviceId)}
    IN  IF hit = {} THEN 0 ELSE MaxOf(hit)

isActive(s) == s.status = "active"

isTrial(s, t) ==
    IF s.status # "trial" \/ ~Truthy(s.trial_end) THEN FALSE ELSE Val(s.trial_end) > t

(* a trial that ends exactly now is not yet counted as expired *)
isTrialExpiredStrict(s, t) ==
    IF s.status # "trial" \/ ~Truthy(s.trial_end) THEN FALSE ELSE Val(s.trial_end) < t

isTrialExpired(s, t) ==
    IF s.status # "trial" \/ ~Truthy(s.trial_end) THEN FALSE ELSE Val(s.trial_end) <= t

getSubscriptionStatus(s, t) ==
    IF isActive(s) THEN "active"
    ELSE IF isTrial(s, t) THEN "trial"
    ELSE IF s.status = "expired" \/ isTrialExpired(s, t) THEN "expired"
    ELSE "none"

(* Math.ceil(x / d) for d > 0 *)
CeilDiv(x, d) == IF x >= 0 THEN (x + d - 1) \div d ELSE -((-x) \div d)

(* UserSubscription.getTrialDaysRemaining at time t *)
getTrialDaysRemaining(s, t) ==
    IF ~isTrial(s, t)
    THEN 0
    ELSE LET diffDays == CeilDiv(Val(s.trial_end) - t, DayTicks)
         IN  IF diffDays > 0 THEN diffDays ELSE 0

(* UserSubscription.toPublicJSON of an instance built from row s *)
SubPublic(s, t) ==
    [status |-> getSubscriptionStatus(s, t), plan |-> s.plan_id,
     trialStart |-> s.trial_start, trialEnd |-> s.trial_end,
     isActive |-> isActive(s), isTrial |-> isTrial(s, t),
     trialDaysRemaining |-> getTrialDaysRemaining(s, t)]

(* StripePlan.getByPlanKey: the catalog row with this plan_key, or null *)
getByPlanKey(planKey) == IF planKey \in PlanKeys THEN Some(planKey) ELSE Null

-----------------------------------------------------------------------------
(* GET /api/check-subscription.  optionalFirebaseAuth sets uid for a valid   *)
(* token; without uid the guest_id of the query is used                      *)

ResolveBegin(r, guest, uid) ==
    /\ FreeSlot(r)
    /\ budget.ops > 0
    /\ budget' = [budget EXCEPT !.ops = @ - 1]
    /\ IF Truthy(uid)
       THEN Arrive(r, "resolve", "", guest, uid, "rs_uid") /\ log' = log
       ELSE IF guest # 0
       THEN Arrive(r, "resolve", "", guest, uid, "rs_device") /\ log' = log
       ELSE Reject("resolve", "", guest, uid, "ValidationError") /\ req' = req
    /\ UNCHANGED <<now, devices, subs, keys>>

(* identity tokens of the Authorization header: none, the tokens the *)
(* identity gateway issued to u1 and u2, and one it does not accept   *)
Tokens == {"", "token_u1", "token_u2", "invalid-token"}

(* verifyIdToken: the uid of the decoded token; Null: the gateway rejects *)
(* the token and verifyIdToken throws                                     *)
verifyIdToken(idToken) ==
    CASE idToken = "token_u1" -> Some("u1")
      [] idToken = "token_u2" -> Some("u2")
      [] OTHER -> Null

(* optionalFirebaseAuth: req.user is null without a token, and also when *)
(* the verification of the token throws; next() is called in every case  *)
optionalFirebaseAuth(idToken) ==
    IF idToken = "" THEN Null ELSE verifyIdToken(idToken)

(* GET /api/check-subscription with guest_id and an Authorization header *)
CheckSubscription(r, guest, idToken) ==
    ResolveBegin(r, guest, optionalFirebaseAuth(idToken))

(* the body answered when no subscription was found *)
NoneView == [status |-> "none", plan |-> Null, trialStart |-> Null, trialEnd |-> Null,
             licenseKey |-> Null]

(* subscription.planId.startsWith('license_') *)
startsWithLicense(planId) == \E p \in PlanKeys \cup PlanInputs : planId = "license_" \o p

(* the body check-subscription answers for the instance built from row s; *)
(* plan is the catalog row found for s.plan_id, or null                    *)
ResolveView(s, plan, t) ==
    [status |-> getSubscriptionStatus(s, t),
     plan |-> plan,
     trialStart |-> s.trial_start, trialEnd |-> s.trial_end,
     licenseKey |-> IF Truthy(s.plan_id) /\ startsWithLicense(Val(s.plan_id))
                    THEN s.plan_id ELSE Null]

(* after the subscription lookup: answer none, or go on to the plan lookup *)
ResolveFound(r, id) ==
    IF id = 0
    THEN Respond(r, "ok", Some(NoneView), 0, 0)
    ELSE IF Truthy(subs[id].plan_id)
    THEN req' = [req EXCEPT ![r].pc = "rs_plan", ![r].acc = <<subs[id]>>] /\ log' = log
    ELSE Respond(r, "ok", Some(ResolveView(subs[id], Null, now)), 0, 0)

(* UserSubscription.getByUid(uid) *)
ResolveUid(r) ==
    /\ req[r].pc = "rs_uid"
    /\ ResolveFound(r, SubGetByUid(Val(req[r].u)))
    /\ UNCHANGED <<now, devices, subs, keys, budget>>

(* Device.getById(guest_id) *)
ResolveDevice(r) ==
    /\ req[r].pc = "rs_device"
    /\ IF req[r].g \in 1..Len(devices)
       THEN Step(r, "rs_sub") /\ log' = log
       ELSE Respond(r, "ok", Some(NoneView), 0, 0)
    /\ UNCHANGED <<now, devices, subs, keys, budget>>

(* UserSubscription.getByDeviceId(device.id) *)
ResolveSub(r) ==
    /\ req[r].pc = "rs_sub"
    /\ ResolveFound(r, SubGetByDeviceId(req[r].g))
    /\ UNCHANGED <<now, devices, subs, keys, budget>>

(* StripePlan.getByPlanKey(subscription.planId), then the answer *)
ResolvePlan(r) ==
    /\ req[r].pc = "rs_plan"
    /\ LET s == req[r].acc[1]
       IN  Respond(r, "ok", Some(ResolveView(s, getByPlanKey(Val(s.plan_id)), now)), 0, 0)
    /\ UNCHANGED <<now, devices, subs, keys, budget>>

-----------------------------------------------------------------------------
(* GET /api/my-subscription (firebaseAuth has verified the token and set uid) *)

MySubscriptionBegin(r, uid) ==
    /\ FreeSlot(r)
    /\ budget.ops > 0
    /\ budget' = [budget EXCEPT !.ops = @ - 1]
    /\ Arrive(r, "mine", "", 0, Some(uid), "my_sub")
    /\ UNCHANGED <<now, devices, subs, keys, log>>

(* the body answered when the account has no subscription *)
MyNoneView == [status |-> "none", plan |-> Null, trialStart |-> Null, trialEnd |-> Null]

(* the body my-subscription answers for the instance built from row s *)
MyView(s, plan, t) ==
    [status |-> getSubscriptionStatus(s, t),
     plan |-> plan,
     trialStart |-> s.trial_start, trialEnd |-> s.trial_end,
     isActive |-> isActive(s), isTrial |-> isTrial(s, t),
     trialDaysRemaining |-> getTrialDaysRemaining(s, t)]

(* UserSubscription.getByUid(uid) *)
MySubscriptionSub(r) ==
    /\ req[r].pc = "my_sub"
    /\ LET id == SubGetByUid(Val(req[r].u))
       IN  IF id = 0
           THEN Respond(r, "ok", Some(MyNoneView), 0, 0)
           ELSE IF Truthy(subs[id].plan_id)
           THEN req' = [req EXCEPT ![r].pc = "my_plan", ![r].acc = <<subs[id]>>] /\ log' = log
           ELSE Respond(r, "ok", Some(MyView(subs[id], Null, now)), 0, 0)
    /\ UNCHANGED <<now, devices, subs, keys, budget>>

(* StripePlan.getByPlanKey(subscription.planId), then the answer *)
MySubscriptionPlan(r) ==
    /\ req[r].pc = "my_plan"
    /\ LET s == req[r].acc[1]
       IN  Respond(r, "ok", Some(MyView(s, getByPlanKey(Val(s.plan_id)), now)), 0, 0)
    /\ UNCHANGED <<now, devices, subs, keys, budget>>

-----------------------------------------------------------------------------
(* POST /api/link-guest (firebaseAuth has verified the token and set uid) *)

LinkBegin(r, guest, uid) ==
    /\ FreeSlot(r)
    /\ budget.ops > 0
    /\ budget' = [budget EXCEPT !.ops = @ - 1]
    /\ IF guest = 0
       THEN Reject("link", "", guest, Some(uid), "ValidationError") /\ req' = req
       ELSE Arrive(r, "link", "", guest, Some(uid), "lk_get") /\ log' = log
    /\ UNCHANGED <<now, devices, subs, keys>>

(* the handler without its check of device.linkedUid *)
LinkAllowedUnchecked(device) == TRUE

(* "not already linked": decided on the row read by Device.getById *)
LinkAllowed(device) == ~Truthy(device.linked_uid)

(* a handler that hands the device over to the caller before it reports *)
(* that the device is already linked                                     *)
LinkGetRelinks(r) ==
    /\ req[r].pc = "lk_get"
    /\ IF req[r].g \notin 1..Len(devices)
       THEN Respond(r, "DeviceNotFound", Null, 0, 0) /\ devices' = devices
       ELSE IF ~LinkAllowed(devices[req[r].g])
       THEN /\ Respond(r, "AlreadyLinked", Null, 0, 0)
            /\ devices' = [devices EXCEPT ![req[r].g].linked_uid = req[r].u]
       ELSE /\ req' = [req EXCEPT ![r].pc = "lk_link", ![r].snap = Some(devices[req[r].g])]
            /\ log' = log /\ devices' = devices
    /\ UNCHANGED <<now, subs, keys, budget>>

(* Device.getById, then the check of device.linkedUid *)
LinkGet(r) ==
    /\ req[r].pc = "lk_get"
    /\ IF req[r].g \notin 1..Len(devices)
       THEN Respond(r, "DeviceNotFound", Null, 0, 0)
       ELSE IF ~LinkAllowed(devices[req[r].g])
       THEN Respond(r, "AlreadyLinked", Null, 0, 0)
       ELSE /\ req' = [req EXCEPT ![r].pc = "lk_link", ![r].snap = Some(devices[req[r].g])]
            /\ log' = log
    /\ UNCHANGED <<now, devices, subs, keys, budget>>

(* the update Device.linkToUid sends: .eq('id', this.id) is its only condition *)
LinkUpdate(device, uid) == [device EXCEPT !.linked_uid = uid]

(* device.linkToUid(uid) *)
LinkLink(r) ==
    /\ req[r].pc = "lk_link"
    /\ devices' = [devices EXCEPT ![req[r].g] = LinkUpdate(@, req[r].u)]
    /\ req' = [req EXCEPT ![r].pc = "lk_sub", ![r].wrote = @ + 1]
    /\ UNCHANGED <<now, subs, keys, log, budget>>

(* UserSubscription.getByUid(uid) and the choice between create, update, neither *)
LinkSub(r) ==
    /\ req[r].pc = "lk_sub"
    /\ LET id == SubGetByUid(Val(req[r].u))
           device == Val(req[r].snap)
       IN  IF id = 0
           THEN Step(r, "lk_create") /\ log' = log
           ELSE IF ~Truthy(subs[id].trial_start) /\ Truthy(device.trial_start)
           THEN /\ req' = [req EXCEPT ![r].pc = "lk_update", ![r].acc = <<id, subs[id]>>]
                /\ log' = log
           ELSE Respond(r, "ok", Some(SubPublic(subs[id], now)), 0, 0)
    /\ UNCHANGED <<now, devices, subs, keys, budget>>

(* a record for the account that does not take the trial of the device *)
LinkedSubWithoutTrial(uid, device) ==
    SubRow(uid, Null, Null, Null, Null, device.subscription_status, Null, Null)

(* the row link-guest creates for an account without a record *)
LinkedSub(uid, device) ==
    SubRow(uid, Null, Null, Null, Null, device.subscription_status,
           device.trial_start, device.trial_end)

(* UserSubscription.create with the trial of the device, then the answer *)
LinkCreate(r) ==
    /\ req[r].pc = "lk_create"
    /\ LET device == Val(req[r].snap)
           row == LinkedSub(req[r].u, device)
       IN  /\ subs' = Append(subs, row)
           /\ Respond(r, "ok", Some(SubPublic(row, now)), 1, 1)
    /\ UNCHANGED <<now, devices, keys, budget>>

(* subscription.update({trial_start, trial_end, status}); Object.assign adds  *)
(* the columns of the updated row to the instance: status replaces the field  *)
(* of that name, the camelCase trialStart / trialEnd keep the values read     *)
LinkBackfill(r) ==
    /\ req[r].pc = "lk_update"
    /\ LET device == Val(req[r].snap)
           id == req[r].acc[1]
       IN  /\ subs' = [subs EXCEPT ![id].trial_start = device.trial_start,
                                   ![id].trial_end = device.trial_end,
                                   ![id].status = device.subscription_status]
           /\ Respond(r, "ok",
                      Some(SubPublic([req[r].acc[2] EXCEPT
                                        !.status = device.subscription_status], now)),
                      1, 0)
    /\ UNCHANGED <<now, devices, keys, budget>>

-----------------------------------------------------------------------------
(* POST /webhook/stripe, event checkout.session.completed *)

(* sessions the billing processor can report: metadata carries uid or guest_id *)
(* as create-checkout-session wrote them, or neither for a foreign session     *)
CheckoutEvents ==
    {[uid |-> Some("u1"), guest |-> 0, customer |-> "cus_1", subscription |-> "sub_1"],
     [uid |-> Null, guest |-> 1, customer |-> "cus_2", subscription |-> "sub_2"],
     [uid |-> Null, guest |-> 0, customer |-> "cus_3", subscription |-> "sub_3"],
     [uid |-> Some("u1"), guest |-> 0, customer |-> "cus_4", subscription |-> "sub_4"]}

(* subscriptionData of handleCheckoutSessionCompleted *)
CheckoutData(e) ==
    [stripe_customer_id |-> Some(e.customer), stripe_subscription_id |-> Some(e.subscription),
     plan_id |-> Null, status |-> "active"]

(* an activation that also clears the trial bounds of the record *)
CheckoutApplyClearsTrial(s, e) ==
    [s EXCEPT !.stripe_customer_id = CheckoutData(e).stripe_customer_id,
              !.stripe_subscription_id = CheckoutData(e).stripe_subscription_id,
              !.plan_id = CheckoutData(e).plan_id,
              !.status = CheckoutData(e).status,
              !.trial_start = Null, !.trial_end = Null]

(* the columns subscription.update(subscriptionData) sets on row s *)
CheckoutApply(s, e) ==
    [s EXCEPT !.stripe_customer_id = CheckoutData(e).stripe_customer_id,
              !.stripe_subscription_id = CheckoutData(e).stripe_subscription_id,
              !.plan_id = CheckoutData(e).plan_id,
              !.status = CheckoutData(e).status]

CheckoutBegin(r, e) ==
    /\ FreeSlot(r)
    /\ budget.ops > 0
    /\ budget' = [budget EXCEPT !.ops = @ - 1]
    /\ IF ~Truthy(e.uid) /\ e.guest = 0
       THEN Reject("checkout", e.subscription, e.guest, e.uid, "ok") /\ req' = req
       ELSE /\ req' = [req EXCEPT ![r] =
                         [Idle EXCEPT !.pc = IF Truthy(e.uid) THEN "co_uid" ELSE "co_device",
                                      !.op = "checkout", !.a = e.subscription, !.g = e.guest,
                                      !.u = e.uid, !.snap = Some(e), !.begin = Len(log)]]
            /\ log' = log
    /\ UNCHANGED <<now, devices, subs, keys>>

(* UserSubscription.getByUid(uid) *)
CheckoutUid(r) ==
    /\ req[r].pc = "co_uid"
    /\ req' = [req EXCEPT ![r].pc = "co_write", ![r].acc = <<SubGetByUid(Val(req[r].u))>>]
    /\ UNCHANGED <<now, devices, subs, keys, log, budget>>

(* Device.getById(guest_id) *)
CheckoutDevice(r) ==
    /\ req[r].pc = "co_device"
    /\ IF req[r].g \in 1..Len(devices)
       THEN Step(r, "co_sub") /\ log' = log
       ELSE Respond(r, "ok", Null, 0, 0)
    /\ UNCHANGED <<now, devices, subs, keys, budget>>

(* UserSubscription.getByDeviceId(device.id) *)
CheckoutSub(r) ==
    /\ req[r].pc = "co_sub"
    /\ req' = [req EXCEPT ![r].pc = "co_write", ![r].acc = <<SubGetByDeviceId(req[r].g)>>]
    /\ UNCHANGED <<now, devices, subs, keys, log, budget>>

(* a row is created for every delivery *)
CheckoutAlwaysCreates(found) == FALSE

(* the row found is updated, otherwise a row is created *)
CheckoutUpsert(found) == found # 0

(* subscription.update(subscriptionData) or UserSubscription.create *)
CheckoutWrite(r) ==
    /\ req[r].pc = "co_write"
    /\ LET e == Val(req[r].snap)
           id == req[r].acc[1]
       IN  IF CheckoutUpsert(id)
           THEN subs' = [subs EXCEPT ![id] = CheckoutApply(@, e)]
           ELSE subs' = Append(subs, CheckoutApply(
                            SubRow(e.uid, IF Truthy(e.uid) THEN Null ELSE Some(e.guest),
                                   Null, Null, Null, "active", Null, Null), e))
    /\ Respond(r, "ok", Null, 1, IF CheckoutUpsert(req[r].acc[1]) THEN 0 ELSE 1)
    /\ UNCHANGED <<now, devices, keys, budget>>

-----------------------------------------------------------------------------
(* POST /webhook/stripe, events customer.subscription.updated,              *)
(* customer.subscription.deleted, invoice.payment_succeeded and             *)
(* invoice.payment_failed: each locates the record by the external          *)
(* subscription id and sets its status                                      *)

(* statuses the billing processor can report; "paused" is one the switch of *)
(* handleSubscriptionUpdated does not name                                  *)
StripeStatuses ==
    {"active", "past_due", "canceled", "incomplete", "incomplete_expired",
     "trialing", "unpaid", "paused"}

(* the switch without its default branch: an unnamed status keeps the  *)
(* initial value of mappedStatus                                        *)
mappedStatusNoDefault(status) ==
    CASE status = "active" -> "active"
      [] status = "past_due" -> "past_due"
      [] status \in {"canceled", "cancelled"} -> "canceled"
      [] status \in {"incomplete", "incomplete_expired"} -> "expired"
      [] status = "trialing" -> "trial"
      [] status = "unpaid" -> "expired"
      [] OTHER -> "active"

(* mappedStatus of handleSubscriptionUpdated *)
mappedStatus(status) ==
    CASE status = "active" -> "active"
      [] status = "past_due" -> "past_due"
      [] status \in {"canceled", "cancelled"} -> "canceled"
      [] status \in {"incomplete", "incomplete_expired"} -> "expired"
      [] status = "trialing" -> "trial"
      [] status = "unpaid" -> "expired"
      [] OTHER -> "expired"

StatusEventTypes ==
    {"customer.subscription.updated", "customer.subscription.deleted",
     "invoice.payment_succeeded", "invoice.payment_failed"}

(* external subscription ids an event can carry: sub_9 belongs to no checkout *)
SubscriptionIds == {"sub_1", "sub_2", "sub_9"}

(* handlers of the invoice events that both reactivate the record *)
EventStatusInvoicesAlike(e) ==
    CASE e.type = "customer.subscription.updated" -> mappedStatus(e.status)
      [] e.type = "customer.subscription.deleted" -> "canceled"
      [] e.type = "invoice.payment_succeeded" -> "active"
      [] e.type = "invoice.payment_failed" -> "active"

(* the status the handler of event e passes to updateStatus *)
EventStatus(e) ==
    CASE e.type = "customer.subscription.updated" -> mappedStatus(e.status)
      [] e.type = "customer.subscription.deleted" -> "canceled"
      [] e.type = "invoice.payment_succeeded" -> "active"
      [] e.type = "invoice.payment_failed" -> "past_due"

(* a lookup that falls back to the newest record when none carries the id *)
SubGetByStripeSubscriptionIdOrLast(subscriptionId) ==
    LET hit == {i \in 1..Len(subs) : subs[i].stripe_subscription_id = Some(subscriptionId)}
    IN  IF Cardinality(hit) = 1 THEN CHOOSE i \in hit : TRUE ELSE Len(subs)

(* UserSubscription.getByStripeSubscriptionId: .single() yields a row only  *)
(* when exactly one matches; no row and several rows both give PGRST116,    *)
(* which the method turns into null.  0: null                               *)
SubGetByStripeSubscriptionId(subscriptionId) ==
    LET hit == {i \in 1..Len(subs) : subs[i].stripe_subscription_id = Some(subscriptionId)}
    IN  IF Cardinality(hit) = 1 THEN CHOOSE i \in hit : TRUE ELSE 0

(* the events whose object is an invoice *)
InvoiceEventTypes == {"invoice.payment_succeeded", "invoice.payment_failed"}

(* the event is verified and dispatched to its handler; the handlers of the *)
(* invoice events return at once for an invoice without a subscription      *)
StatusEventBegin(r, e) ==
    /\ FreeSlot(r)
    /\ budget.ops > 0
    /\ budget' = [budget EXCEPT !.ops = @ - 1]
    /\ IF e.type \in InvoiceEventTypes /\ e.subscription = ""
       THEN Reject(e.type, e.subscription, 0, Null, "ok") /\ req' = req
       ELSE /\ req' = [req EXCEPT ![r] = [Idle EXCEPT !.pc = "se_get", !.op = e.type,
                                                      !.a = e.subscription,
                                                      !.snap = Some(e),
                                                      !.begin = Len(log)]]
            /\ log' = log
    /\ UNCHANGED <<now, devices, subs, keys>>

(* UserSubscription.getByStripeSubscriptionId; a missing record is logged *)
(* and the event acknowledged                                            *)
StatusEventGet(r) ==
    /\ req[r].pc = "se_get"
    /\ LET id == SubGetByStripeSubscriptionId(req[r].a)
       IN  IF id = 0
           THEN Respond(r, "ok", Null, 0, 0)
           ELSE req' = [req EXCEPT ![r].pc = "se_write", ![r].acc = <<id>>] /\ log' = log
    /\ UNCHANGED <<now, devices, subs, keys, budget>>

(* an update that reactivates a record that already has the status *)
UpdateStatusToggle(s, status) ==
    [s EXCEPT !.status = IF @ = status THEN "active" ELSE status]

(* the update of UserSubscription.updateStatus: status is the only column set *)
UpdateStatus(s, status) == [s EXCEPT !.status = status]

(* subscription.updateStatus(...), then res.json({ received: true }) *)
StatusEventWrite(r) ==
    /\ req[r].pc = "se_write"
    /\ subs' = [subs EXCEPT ![req[r].acc[1]] = UpdateStatus(@, EventStatus(Val(req[r].snap)))]
    /\ Respond(r, "ok", Null, 1, 0)
    /\ UNCHANGED <<now, devices, keys, budget>>

-----------------------------------------------------------------------------
(* POST /webhook/stripe, event customer.subscription.created *)

(* StripePlan.getByStripePriceId: plan_key of the catalog row, or null *)
getByStripePriceId(priceId) ==
    CASE priceId = "price_monthly_pro" -> Some("pro_monthly")
      [] priceId = "price_yearly_pro" -> Some("pro_yearly")
      [] priceId = "price_lifetime_pro" -> Some("pro_lifetime")
      [] OTHER -> Null

(* UserSubscription.getByStripeCustomerId: the most recent row, 0: none *)
SubGetByStripeCustomerId(customerId) ==
    LET hit == {i \in 1..Len(subs) : subs[i].stripe_customer_id = Some(customerId)}
    IN  IF hit = {} THEN 0 ELSE MaxOf(hit)

(* subscriptions the billing processor can announce: of the customer of the *)
(* checkout of u1, with a price of the catalog, an unknown price or no      *)
(* price item, and of a customer no record names                            *)
CreatedEvents ==
    {[customer |-> "cus_1", subscription |-> "sub_1", price |-> Some("price_monthly_pro")],
     [customer |-> "cus_1", subscription |-> "sub_1", price |-> Some("price_other")],
     [customer |-> "cus_1", subscription |-> "sub_1", price |-> Null],
     [customer |-> "cus_9", subscription |-> "sub_9", price |-> Some("price_monthly_pro")]}

(* the event is verified and dispatched; without a price id the handler *)
(* returns before it reads the store                                    *)
CreatedBegin(r, e) ==
    /\ FreeSlot(r)
    /\ budget.ops > 0
    /\ budget' = [budget EXCEPT !.ops = @ - 1]
    /\ IF ~Truthy(e.price)
       THEN Reject("customer.subscription.created", e.subscription, 0, Null, "ok")
            /\ req' = req
       ELSE /\ req' = [req EXCEPT ![r] =
                         [Idle EXCEPT !.pc = "sc_plan", !.op = "customer.subscription.created",
                                      !.a = e.subscription, !.snap = Some(e),
                                      !.begin = Len(log)]]
            /\ log' = log
    /\ UNCHANGED <<now, devices, subs, keys>>

(* StripePlan.getByStripePriceId(priceId) *)
CreatedPlan(r) ==
    /\ req[r].pc = "sc_plan"
    /\ IF Truthy(getByStripePriceId(Val(Val(req[r].snap).price)))
       THEN Step(r, "sc_get") /\ log' = log
       ELSE Respond(r, "ok", Null, 0, 0)
    /\ UNCHANGED <<now, devices, subs, keys, budget>>

(* UserSubscription.getByStripeCustomerId(customerId) *)
CreatedGet(r) ==
    /\ req[r].pc = "sc_get"
    /\ LET id == SubGetByStripeCustomerId(Val(req[r].snap).customer)
       IN  IF id = 0
           THEN Respond(r, "ok", Null, 0, 0)
           ELSE req' = [req EXCEPT ![r].pc = "sc_write", ![r].acc = <<id>>] /\ log' = log
    /\ UNCHANGED <<now, devices, subs, keys, budget>>

(* the columns handleSubscriptionCreated sets on the record of the customer *)
CreatedApply(s, e) ==
    [s EXCEPT !.stripe_subscription_id = Some(e.subscription),
              !.plan_id = getByStripePriceId(Val(e.price)),
              !.status = "active"]

(* subscription.update({stripe_subscription_id, plan_id, status}) *)
CreatedWrite(r) ==
    /\ req[r].pc = "sc_write"
    /\ subs' = [subs EXCEPT ![req[r].acc[1]] = CreatedApply(@, Val(req[r].snap))]
    /\ Respond(r, "ok", Null, 1, 0)
    /\ UNCHANGED <<now, devices, keys, budget>>

-----------------------------------------------------------------------------
(* POST /webhook/stripe: the router *)

(* stripe-signature headers: the one computed with STRIPE_WEBHOOK_SECRET, *)
(* one computed with another secret, and a missing header                 *)
Signatures == {"valid", "forged", ""}

(* a router that takes every payload for an event of the billing processor *)
verifyWebhookSignatureSkipped(signature) == TRUE

(* verifyWebhookSignature: constructEvent returns the event only for the *)
(* signature made with the secret, and throws otherwise                  *)
verifyWebhookSignature(signature) == signature = "valid"

(* event types the switch of the router has no case for *)
UnhandledTypes == {"customer.created", "invoice.created"}

(* a default branch that treats an unknown type as an error *)
defaultOutcomeFails(type) == "Error500"

(* the default branch logs the type; the router answers { received: true } *)
defaultOutcome(type) == "ok"

(* a request arrives: the signature is verified, then the switch on the type *)
(* of the event calls its handler                                            *)
WebhookStripe(r, signature, type, object) ==
    IF ~verifyWebhookSignature(signature)
    THEN /\ budget.ops > 0
         /\ budget' = [budget EXCEPT !.ops = @ - 1]
         /\ Reject(type, "", 0, Null, "InvalidSignature")
         /\ UNCHANGED <<now, devices, subs, keys, req>>
    ELSE CASE type = "checkout.session.completed" -> CheckoutBegin(r, object)
           [] type = "customer.subscription.created" -> CreatedBegin(r, object)
           [] type \in StatusEventTypes -> StatusEventBegin(r, object)
           [] OTHER ->
                /\ budget.ops > 0
                /\ budget' = [budget EXCEPT !.ops = @ - 1]
                /\ Reject(type, "", 0, Null, defaultOutcome(type))
                /\ UNCHANGED <<now, devices, subs, keys, req>>

-----------------------------------------------------------------------------
(* POST /admin/revoke-license (adminAuth has accepted the x-admin-key) *)

RevokeBegin(r, key) ==
    /\ FreeSlot(r)
    /\ budget.ops > 0
    /\ budget' = [budget EXCEPT !.ops = @ - 1]
    /\ Arrive(r, "revoke", key, 0, Null, "rv_get")
    /\ UNCHANGED <<now, devices, subs, keys, log>>

(* LicenseKey.getByKey *)
RevokeGet(r) ==
    /\ req[r].pc = "rv_get"
    /\ LET id == KeyGetByKey(req[r].a)
       IN  IF id = 0
           THEN Respond(r, "NotFound", Null, 0, 0)
           ELSE req' = [req EXCEPT ![r].pc = "rv_revoke", ![r].acc = <<id>>] /\ log' = log
    /\ UNCHANGED <<now, devices, subs, keys, budget>>

(* the update LicenseKey.revoke sends *)
RevokeUpdate(k, t) ==
    [k EXCEPT !.redeemed_at = Some(t), !.bound_uid = Null, !.bound_device_id = Null]

(* licenseKey.revoke(), then the answer *)
RevokeRevoke(r) ==
    /\ req[r].pc = "rv_revoke"
    /\ keys' = [keys EXCEPT ![req[r].acc[1]] = RevokeUpdate(@, now)]
    /\ Respond(r, "ok", Null, 1, 0)
    /\ UNCHANGED <<now, devices, subs, budget>>

-----------------------------------------------------------------------------
(* GET /admin/license-keys (no filter) and GET /admin/stats *)

ListBegin(r) ==
    /\ FreeSlot(r)
    /\ budget.ops > 0
    /\ budget' = [budget EXCEPT !.ops = @ - 1]
    /\ Arrive(r, "list", "", 0, Null, "ls_all")
    /\ UNCHANGED <<now, devices, subs, keys, log>>

(* LicenseKey.getAll: the rows, of which the answer shows no plaintext *)
ListAll(r) ==
    /\ req[r].pc = "ls_all"
    /\ req' = [req EXCEPT ![r].pc = "ls_count", ![r].acc = <<Len(keys)>>]
    /\ UNCHANGED <<now, devices, subs, keys, log, budget>>

(* the count query for the pagination *)
ListCount(r) ==
    /\ req[r].pc = "ls_count"
    /\ Respond(r, "ok", Some([listed |-> req[r].acc[1], total |-> Len(keys)]), 0, 0)
    /\ UNCHANGED <<now, devices, subs, keys, budget>>

StatsBegin(r) ==
    /\ FreeSlot(r)
    /\ budget.ops > 0
    /\ budget' = [budget EXCEPT !.ops = @ - 1]
    /\ Arrive(r, "stats", "", 0, Null, "as_keys")
    /\ UNCHANGED <<now, devices, subs, keys, log>>

(* select from license_keys: total and redeemed *)
StatsKeys(r) ==
    /\ req[r].pc = "as_keys"
    /\ req' = [req EXCEPT ![r].pc = "as_subs",
                          ![r].acc = <<Len(keys),
                                       Cardinality({i \in 1..Len(keys) :
                                                        Truthy(keys[i].redeemed_at)})>>]
    /\ UNCHANGED <<now, devices, subs, keys, log, budget>>

(* select from user_subscriptions: active and total *)
StatsSubs(r) ==
    /\ req[r].pc = "as_subs"
    /\ req' = [req EXCEPT ![r].pc = "as_devices",
                          ![r].acc = @ \o <<Cardinality({i \in 1..Len(subs) :
                                                            subs[i].status = "active"}),
                                            Len(subs)>>]
    /\ UNCHANGED <<now, devices, subs, keys, log, budget>>

(* select from devices: in trial and total; then the answer *)
StatsDevices(r) ==
    /\ req[r].pc = "as_devices"
    /\ Respond(r, "ok",
               Some([keys_total |-> req[r].acc[1], keys_redeemed |-> req[r].acc[2],
                     subs_active |-> req[r].acc[3], subs_total |-> req[r].acc[4],
                     devices_trial |-> Cardinality({i \in 1..Len(devices) :
                                          devices[i].subscription_status = "trial"}),
                     devices_total |-> Len(devices)]), 0, 0)
    /\ UNCHANGED <<now, devices, subs, keys, budget>>

-----------------------------------------------------------------------------
(* router.use(adminAuth): every route of /admin passes the check first *)

(* the configured ADMIN_API_KEY *)
ADMIN_API_KEY == "admin-secret"

(* values of the x-admin-key header: missing, the configured key, another *)
AdminKeyInputs == {"", "admin-secret", "guess"}

(* a check that only asks for the header to be present *)
adminAuthPresentOnly(adminKey, expectedKey) == adminKey # ""

(* adminAuth: next() is called when the header is present and equal to the *)
(* expected key                                                            *)
adminAuth(adminKey, expectedKey) == ~(adminKey = "" \/ adminKey # expectedKey)

AdminOps == {"generate", "revoke", "list", "stats"}

(* an /admin request with header adminKey for operation op, whose inputs *)
(* are a plan and a count (generate) or a key (revoke)                    *)
AdminRequest(r, adminKey, op, planId, count, key) ==
    IF ~adminAuth(adminKey, ADMIN_API_KEY)
    THEN /\ budget.ops > 0
         /\ budget' = [budget EXCEPT !.ops = @ - 1]
         /\ Reject(op, "", 0, Null, "Unauthorized")
         /\ UNCHANGED <<now, devices, subs, keys, req>>
    ELSE CASE op = "generate" -> GenerateBegin(r, planId, count, Null, TRUE)
           [] op = "revoke" -> RevokeBegin(r, key)
           [] op = "list" -> ListBegin(r)
           [] op = "stats" -> StatsBegin(r)

-----------------------------------------------------------------------------
(* The clock moves between any two steps: by one tick, or by a whole trial *)
TickSteps == {1, TrialDays * DayTicks}

Tick(d) ==
    /\ budget.ticks > 0
    /\ budget' = [budget EXCEPT !.ticks = @ - 1]
    /\ now' = now + d
    /\ UNCHANGED <<devices, subs, keys, req, log>>

-----------------------------------------------------------------------------
(* Initial stores.  EmptyStore is the database after the migration.         *)
(* WarmStores are stores the service reaches from it: two guests started    *)
(* their trials at time 0 and the administrator generated one license key.  *)

EmptyStore == [devices |-> <<>>, subs |-> <<>>, keys |-> <<>>]

WarmStores ==
    LET d1 == NewDevice("fpA", 0)
        d2 == NewDevice("fpB", 0)
    IN  {[devices |-> <<d1, d2>>,
          subs |-> <<TrialSub(1, d1), TrialSub(2, d2)>>,
          keys |-> <<NewKey("UTM-AAAA", "pro_monthly", e, s)>>] :
            e \in ExpiryInputs, s \in BOOLEAN}

(* a warm store in which account u1 has also completed a checkout *)
PaidStores ==
    {[st EXCEPT !.subs = Append(@, SubRow(Some("u1"), Null, Some("cus_1"), Some("sub_1"),
                                          Null, "active", Null, Null))] :
        st \in {w \in WarmStores : w.keys[1].expires_at = Null /\ w.keys[1].single_use}}

(* a store in which the billing processor has announced the subscription of *)
(* the checkout of u1: the record carries its plan                          *)
PlannedStores ==
    {[st EXCEPT !.subs[Len(st.subs)] =
                    CreatedApply(@, [customer |-> "cus_1", subscription |-> "sub_1",
                                     price |-> Some("price_monthly_pro")])] :
        st \in PaidStores}

(* the store after a single guest started a trial and one key with an     *)
(* expiry was generated, and the same after that guest linked the device  *)
(* to account u1                                                          *)
SoloStores ==
    LET d1 == NewDevice("fpA", 0)
    IN  {[devices |-> <<d1>>, subs |-> <<TrialSub(1, d1)>>,
          keys |-> <<NewKey("UTM-AAAA", "pro_monthly", Some(1), TRUE)>>]}

SoloLinkedStores ==
    {[st EXCEPT !.devices[1] = LinkUpdate(@, Some("u1")),
                !.subs = Append(@, LinkedSub(Some("u1"), st.devices[1]))] :
        st \in SoloStores}

(* the store after a single guest started a trial, before any key exists *)
KeylessStores ==
    LET d1 == NewDevice("fpA", 0)
    IN  {[devices |-> <<d1>>, subs |-> <<TrialSub(1, d1)>>, keys |-> <<>>]}

(* the statuses the handlers write to a record *)
RecordStatuses == {"trial", "active", "past_due", "canceled", "expired"}

(* stores in which status events have left the record of the checkout of u1 *)
(* with any of the statuses                                                 *)
BilledStores ==
    {[st EXCEPT !.subs[Len(st.subs)] = UpdateStatus(@, status)] :
        st \in PaidStores \cup PlannedStores, status \in RecordStatuses}

(* a warm store in which the first guest has linked the device to account  *)
(* u1, which had no record: link-guest created the account's trial record  *)
LinkedStores ==
    {[st EXCEPT !.devices[1] = LinkUpdate(@, Some("u1")),
                !.subs = Append(@, LinkedSub(Some("u1"), st.devices[1]))] :
        st \in {w \in WarmStores : w.keys[1].expires_at = Null /\ w.keys[1].single_use}}

(* the service holds one of the stores and the time is one of times *)
InitAt(stores, times) ==
    /\ now \in times
    /\ \E st \in stores : devices = st.devices /\ subs = st.subs /\ keys = st.keys
    /\ req = [r \in Slots |-> Idle]
    /\ log = <<>>
    /\ budget = [ops |-> MaxOps, ticks |-> MaxTicks, faults |-> MaxFaults]

InitWith(stores) == InitAt(stores, {0})

(* times since the trials of the warm stores started: none, a day, the whole *)
(* trial, a day more than the trial                                          *)
ResolveTimes == {0, DayTicks, TrialDays * DayTicks, (TrialDays + 1) * DayTicks}

Init == InitWith({EmptyStore} \cup WarmStores \cup PaidStores)

Clock == \E d \in TickSteps : Tick(d)

TrialNext ==
    \/ \E r \in Slots, f \in TrialInputs : StartTrialBegin(r, f)
    \/ \E r \in Slots : StartTrialGet(r)
    \/ \E r \in Slots : StartTrialCreate(r)
    \/ \E r \in Slots : StartTrialSub(r)
    \/ \E r \in Slots : StartTrialSubFails(r)

GenerateNext ==
    \/ \E r \in Slots, p \in PlanInputs, n \in 1..MaxBatch, e \in ExpiryInputs,
          s \in BOOLEAN : GenerateBegin(r, p, n, e, s)
    \/ \E r \in Slots : GeneratePlan(r)
    \/ \E r \in Slots, k \in KeyTexts : GenerateInsert(r, k)

RedeemNext(K) ==
    \/ \E r \in Slots, k \in K, g \in GuestInputs : RedeemBegin(r, k, g)
    \/ \E r \in Slots : RedeemGet(r)
    \/ \E r \in Slots : RedeemDevice(r)
    \/ \E r \in Slots : RedeemRedeem(r)
    \/ \E r \in Slots : RedeemSub(r)
    \/ \E r \in Slots : RedeemSubFails(r)

LinkNext ==
    \/ \E r \in Slots, g \in GuestInputs, u \in Accounts : LinkBegin(r, g, u)
    \/ \E r \in Slots : LinkGet(r)
    \/ \E r \in Slots : LinkLink(r)
    \/ \E r \in Slots : LinkSub(r)
    \/ \E r \in Slots : LinkCreate(r)
    \/ \E r \in Slots : LinkBackfill(r)

ResolveNext ==
    \/ \E r \in Slots, g \in GuestInputs, u \in {Null} \cup {Some(x) : x \in Accounts} :
          ResolveBegin(r, g, u)
    \/ \E r \in Slots : ResolveUid(r)
    \/ \E r \in Slots : ResolveDevice(r)
    \/ \E r \in Slots : ResolveSub(r)
    \/ \E r \in Slots : ResolvePlan(r)

CheckoutNext ==
    \/ \E r \in Slots, e \in CheckoutEvents : CheckoutBegin(r, e)
    \/ \E r \in Slots : CheckoutUid(r)
    \/ \E r \in Slots : CheckoutDevice(r)
    \/ \E r \in Slots : CheckoutSub(r)
    \/ \E r \in Slots : CheckoutWrite(r)

MySubscriptionNext ==
    \/ \E r \in Slots, u \in Accounts : MySubscriptionBegin(r, u)
    \/ \E r \in Slots : MySubscriptionSub(r)
    \/ \E r \in Slots : MySubscriptionPlan(r)

(* status events of the types T for the subscriptions I, with the external *)
(* statuses S (only customer.subscription.updated reads the status of its  *)
(* object)                                                                 *)
StatusEvents(T, S, I) ==
    {[type |-> ty, subscription |-> id, status |-> st] :
        ty \in T \cap {"customer.subscription.updated"}, id \in I, st \in S}
    \cup
    {[type |-> ty, subscription |-> id, status |-> ""] :
        ty \in T \ {"customer.subscription.updated"}, id \in I}

StatusEventNext(T, S, I) ==
    \/ \E r \in Slots, e \in StatusEvents(T, S, I) : StatusEventBegin(r, e)
    \/ \E r \in Slots : StatusEventGet(r)
    \/ \E r \in Slots : StatusEventWrite(r)

CreatedNext ==
    \/ \E r \in Slots, e \in CreatedEvents : CreatedBegin(r, e)
    \/ \E r \in Slots : CreatedPlan(r)
    \/ \E r \in Slots : CreatedGet(r)
    \/ \E r \in Slots : CreatedWrite(r)

(* the requests the webhook endpoint can receive with signature sig *)
WebhookReceive(r, sig) ==
    \/ \E e \in CheckoutEvents : WebhookStripe(r, sig, "checkout.session.completed", e)
    \/ \E e \in CreatedEvents : WebhookStripe(r, sig, "customer.subscription.created", e)
    \/ \E e \in StatusEvents(StatusEventTypes, {"canceled"}, {"sub_1", "sub_9"}) :
          WebhookStripe(r, sig, e.type, e)
    \/ \E t \in UnhandledTypes : WebhookStripe(r, sig, t, [id |-> "evt_1"])

WebhookNext ==
    \/ \E r \in Slots, sig \in Signatures : WebhookReceive(r, sig)
    \/ \E r \in Slots : CheckoutUid(r)
    \/ \E r \in Slots : CheckoutDevice(r)
    \/ \E r \in Slots : CheckoutSub(r)
    \/ \E r \in Slots : CheckoutWrite(r)
    \/ \E r \in Slots : CreatedPlan(r)
    \/ \E r \in Slots : CreatedGet(r)
    \/ \E r \in Slots : CreatedWrite(r)
    \/ \E r \in Slots : StatusEventGet(r)
    \/ \E r \in Slots : StatusEventWrite(r)

(* the requests the /admin routes can receive with header adminKey *)
AdminReceive(r, adminKey) ==
    \/ \E p \in PlanInputs, n \in 1..MaxBatch :
          AdminRequest(r, adminKey, "generate", p, n, "")
    \/ \E k \in {"UTM-AAAA", "UTM-ZZZZ"} : AdminRequest(r, adminKey, "revoke", "", 0, k)
    \/ AdminRequest(r, adminKey, "list", "", 0, "")
    \/ AdminRequest(r, adminKey, "stats", "", 0, "")

AdminNext ==
    \/ \E r \in Slots, h \in AdminKeyInputs : AdminReceive(r, h)
    \/ \E r \in Slots : GeneratePlan(r)
    \/ \E r \in Slots, k \in KeyTexts : GenerateInsert(r, k)
    \/ \E r \in Slots : RevokeGet(r)
    \/ \E r \in Slots : RevokeRevoke(r)
    \/ \E r \in Slots : ListAll(r)
    \/ \E r \in Slots : ListCount(r)
    \/ \E r \in Slots : StatsKeys(r)
    \/ \E r \in Slots : StatsSubs(r)
    \/ \E r \in Slots : StatsDevices(r)

(* check-subscription with the tokens of I *)
CheckSubscriptionNext(I) ==
    \/ \E r \in Slots, g \in GuestInputs, t \in I : CheckSubscription(r, g, t)
    \/ \E r \in Slots : ResolveUid(r)
    \/ \E r \in Slots : ResolveDevice(r)
    \/ \E r \in Slots : ResolveSub(r)
    \/ \E r \in Slots : ResolvePlan(r)

RevokeNext(K) ==
    \/ \E r \in Slots, k \in K : RevokeBegin(r, k)
    \/ \E r \in Slots : RevokeGet(r)
    \/ \E r \in Slots : RevokeRevoke(r)

Next ==
    \/ Clock
    \/ TrialNext
    \/ GenerateNext
    \/ RedeemNext(KeyInputs)
    \/ ResolveNext
    \/ MySubscriptionNext
    \/ LinkNext
    \/ CheckoutNext
    \/ StatusEventNext(StatusEventTypes, {"canceled", "trialing"}, SubscriptionIds)
    \/ CreatedNext
    \/ RevokeNext({"UTM-AAAA", "UTM-ZZZZ"})

Spec == Init /\ [][Next]_vars

(* the trial manager alone, on the empty store *)
SpecTrial == InitWith({EmptyStore}) /\ [][Clock \/ TrialNext]_vars

(* redemption alone, on the warm stores *)
SpecRedeem ==
    InitWith(WarmStores) /\ [][Clock \/ RedeemNext({"UTM-AAAA", "UTM-ZZZZ"})]_vars

(* linking alone, on the warm stores with and without a paying account *)
SpecLink ==
    InitWith({w \in WarmStores : w.keys[1].expires_at = Null /\ w.keys[1].single_use}
                 \cup PaidStores)
        /\ [][Clock \/ LinkNext]_vars

(* the checkout webhook alone *)
SpecCheckout == InitWith({EmptyStore} \cup WarmStores) /\ [][Clock \/ CheckoutNext]_vars

(* the checkout webhook and the resolver, on stores with guests in trial and *)
(* an account that is in trial or has a paid plan                            *)
SpecCheckoutResolve ==
    InitWith(LinkedStores \cup PlannedStores)
        /\ [][Clock \/ CheckoutNext \/ ResolveNext]_vars

(* the resolver alone, at several times of the trials of guests and of a   *)
(* linked account, and for an account with a paid plan                     *)
SpecResolve ==
    (InitAt(LinkedStores, ResolveTimes) \/ InitWith(PlannedStores))
        /\ [][Clock \/ ResolveNext \/ MySubscriptionNext]_vars

(* the status events of subscription sub_1 and the resolver, on stores with *)
(* a paying account                                                         *)
SpecBillingResolve ==
    InitWith(PaidStores \cup PlannedStores)
        /\ [][Clock \/ StatusEventNext(StatusEventTypes, {"canceled", "trialing"}, {"sub_1"})
                    \/ ResolveNext]_vars

(* redemption and the resolver, on the warm store whose key has no expiry *)
SpecRedeemResolve ==
    InitWith({w \in WarmStores : w.keys[1].expires_at = Null /\ w.keys[1].single_use})
        /\ [][Clock \/ RedeemNext({"UTM-AAAA"}) \/ ResolveNext]_vars

(* redemption and revocation of the key of the warm stores *)
SpecRevoke ==
    InitWith(WarmStores)
        /\ [][Clock \/ RedeemNext({"UTM-AAAA"}) \/ RevokeNext({"UTM-AAAA", "UTM-ZZZZ"})]_vars

(* subscription-updated events alone, on stores with a paying account; the *)
(* handler does not read the clock                                         *)
SpecBilling ==
    InitWith(PaidStores)
        /\ [][StatusEventNext({"customer.subscription.updated"}, StripeStatuses,
                              {"sub_1", "sub_9"})]_vars

(* the events that force a status, for the subscription of the checkout of *)
(* u1, for a subscription no record names and for an invoice without one,  *)
(* on records of every status                                              *)
ForcingEventTypes ==
    {"customer.subscription.deleted", "invoice.payment_succeeded", "invoice.payment_failed"}

SpecForce ==
    InitWith(BilledStores)
        /\ [][StatusEventNext(ForcingEventTypes, {}, {"sub_1", "sub_9", ""})]_vars

(* the operations of guests and accounts that can be refused: trials,     *)
(* redemption and linking, before and after the expiry of the key, on      *)
(* stores with one guest (so that guest 2 is unknown) and with two guests  *)
(* and a paying account                                                    *)
SpecRefusals ==
    (InitAt(SoloStores \cup SoloLinkedStores, {0, 2}) \/ InitWith(PaidStores))
        /\ [][TrialNext \/ RedeemNext({"UTM-AAAA", "UTM-ZZZZ"}) \/ LinkNext]_vars

(* the administrator generates the first batch of keys and guests redeem   *)
(* them, with a database that does not fail, at a time before and a time   *)
(* after the expiry an administrator can give; the batch and two attempts  *)
(* on one of its keys take one request more than MaxOps                    *)
FirstBatchBegin(r, count, expiresAt, singleUse) ==
    /\ keys = <<>>
    /\ \A q \in Slots : req[q].op # "generate"
    /\ GenerateBegin(r, "pro_monthly", count, expiresAt, singleUse)

GenerateRedeemNext ==
    \/ \E r \in Slots, n \in 1..MaxBatch, e \in ExpiryInputs, s \in BOOLEAN :
          FirstBatchBegin(r, n, e, s)
    \/ \E r \in Slots : GeneratePlan(r)
    \/ \E r \in Slots, k \in KeyTexts : GenerateInsert(r, k)
    \/ \E r \in Slots, k \in KeyTexts, g \in {1} : RedeemBegin(r, k, g)
    \/ \E r \in Slots : RedeemGet(r)
    \/ \E r \in Slots : RedeemDevice(r)
    \/ \E r \in Slots : RedeemRedeem(r)
    \/ \E r \in Slots : RedeemSub(r)

InitGenerate ==
    /\ now \in {0, 2}
    /\ \E st \in KeylessStores : devices = st.devices /\ subs = st.subs /\ keys = st.keys
    /\ req = [r \in Slots |-> Idle]
    /\ log = <<>>
    /\ budget = [ops |-> MaxOps + 1, ticks |-> MaxTicks, faults |-> MaxFaults]

SpecGenerate == InitGenerate /\ [][GenerateRedeemNext]_vars

(* the /admin routes alone, with every header, on the warm store whose key *)
(* has no expiry                                                           *)
SpecAdmin ==
    InitWith({w \in WarmStores : w.keys[1].expires_at = Null /\ w.keys[1].single_use})
        /\ [][AdminNext]_vars

(* check-subscription with and without tokens, valid and invalid, on stores *)
(* with guests in trial and an account in trial or with a paid plan         *)
SpecCheckSubscription ==
    InitWith(LinkedStores \cup PlannedStores)
        /\ [][CheckSubscriptionNext({"", "token_u1", "invalid-token"})]_vars

(* POST /api/redeem-license as a caller sends it: the handler validates     *)
(* id_token with the body and never reads it again, and no middleware of    *)
(* the route reads the Authorization header, so the token does not reach    *)
(* the handler                                                              *)
RedeemLicense(r, key, guest, idToken) == RedeemBegin(r, key, guest)

(* the callers of a redemption: an authenticated caller sends a valid token *)
(* and no guest id, a guest sends the guest id and no token                 *)
RedeemCallers == {[guest |-> 0, idToken |-> "token_u1"], [guest |-> 1, idToken |-> ""]}

RedeemLicenseNext ==
    \/ \E r \in Slots, k \in {"UTM-AAAA"}, c \in RedeemCallers :
          RedeemLicense(r, k, c.guest, c.idToken)
    \/ \E r \in Slots : RedeemGet(r)
    \/ \E r \in Slots : RedeemDevice(r)
    \/ \E r \in Slots : RedeemRedeem(r)
    \/ \E r \in Slots : RedeemSub(r)
    \/ \E r \in Slots : RedeemSubFails(r)

(* redemption by an authenticated caller and by a guest, on the warm stores *)
(* whose key has no expiry                                                  *)
SpecRedeemLicense ==
    InitWith({w \in WarmStores : w.keys[1].expires_at = Null})
        /\ [][RedeemLicenseNext]_vars

(* stores in which the first guest holds an active record: the guest has *)
(* redeemed the key of the warm store, or has completed a checkout; and  *)
(* the same with account u1 having completed a checkout of its own       *)
EntitledStores ==
    LET plain == {w \in WarmStores : w.keys[1].expires_at = Null /\ w.keys[1].single_use}
        redeemed == {[w EXCEPT !.keys[1] = RedeemUpdate(@, Null, Some(1), 0),
                               !.subs = Append(@, SubRow(Null, Some(1), Null, Null,
                                                         Some(LicensePlan(w.keys[1].plan_id)),
                                                         "active", Null, Null))] : w \in plain}
        bought == {[w EXCEPT !.subs[1] =
                        CheckoutApply(@, [uid |-> Null, guest |-> 1, customer |-> "cus_2",
                                          subscription |-> "sub_2"])] : w \in plain}
        guestOnly == redeemed \cup bought
    IN  guestOnly \cup
        {[w EXCEPT !.subs = Append(@, SubRow(Some("u1"), Null, Some("cus_1"), Some("sub_1"),
                                             Null, "active", Null, Null))] : w \in guestOnly}

(* linking and the resolver, on stores whose first guest is entitled *)
SpecLinkEntitled == InitWith(EntitledStores) /\ [][LinkNext \/ ResolveNext]_vars

(* the checkout of the first guest (metadata guest_id) and one of account *)
(* u1, the link of the first guest to u1, and the resolver for u1         *)
LinkCheckoutNext ==
    \/ \E r \in Slots : LinkBegin(r, 1, "u1")
    \/ \E r \in Slots : LinkGet(r)
    \/ \E r \in Slots : LinkLink(r)
    \/ \E r \in Slots : LinkSub(r)
    \/ \E r \in Slots : LinkCreate(r)
    \/ \E r \in Slots : LinkBackfill(r)
    \/ \E r \in Slots, e \in {c \in CheckoutEvents : c.subscription \in {"sub_1", "sub_2"}} :
          CheckoutBegin(r, e)
    \/ \E r \in Slots : CheckoutUid(r)
    \/ \E r \in Slots : CheckoutDevice(r)
    \/ \E r \in Slots : CheckoutSub(r)
    \/ \E r \in Slots : CheckoutWrite(r)
    \/ \E r \in Slots : ResolveBegin(r, 0, Some("u1"))
    \/ \E r \in Slots : ResolveUid(r)
    \/ \E r \in Slots : ResolvePlan(r)

(* the warm store, alone or with a paying account u1, and one request more *)
(* than MaxOps: a link, a checkout event and a resolve                     *)
InitLinkCheckout ==
    /\ now = 0
    /\ \E st \in {w \in WarmStores : w.keys[1].expires_at = Null /\ w.keys[1].single_use}
                      \cup PaidStores \cup PlannedStores :
          devices = st.devices /\ subs = st.subs /\ keys = st.keys
    /\ req = [r \in Slots |-> Idle]
    /\ log = <<>>
    /\ budget = [ops |-> MaxOps + 1, ticks |-> MaxTicks, faults |-> MaxFaults]

SpecLinkCheckout == InitLinkCheckout /\ [][LinkCheckoutNext]_vars

(* the checkout-completed and subscription-created events alone, on the *)
(* warm store whose key has no expiry                                   *)
SpecCheckoutCreated ==
    InitWith({w \in WarmStores : w.keys[1].expires_at = Null /\ w.keys[1].single_use})
        /\ [][CheckoutNext \/ CreatedNext]_vars

(* after the checkout of u1 was completed and its subscription announced: *)
(* the deletion of the subscription and deliveries of checkout-completed  *)
SpecRedelivery ==
    InitWith(PlannedStores)
        /\ [][StatusEventNext({"customer.subscription.deleted"}, {}, {"sub_1"})
                \/ CheckoutNext]_vars

(* subscription-created events as the billing processor sends them: the    *)
(* subscription object carries its status, which handleSubscriptionCreated *)
(* does not read; the last one names the subscription of the checkout of   *)
(* u1 with a customer no record carries                                    *)
CreatedStatusEvents ==
    {[customer |-> "cus_1", subscription |-> "sub_1", price |-> Some("price_monthly_pro"),
      status |-> st] : st \in {"active", "trialing", "past_due", "incomplete"}}
    \cup {[customer |-> "cus_9", subscription |-> "sub_1",
           price |-> Some("price_monthly_pro"), status |-> "trialing"]}

CreatedStatusNext ==
    \/ \E r \in Slots, e \in CreatedStatusEvents : CreatedBegin(r, e)
    \/ \E r \in Slots : CreatedPlan(r)
    \/ \E r \in Slots : CreatedGet(r)
    \/ \E r \in Slots : CreatedWrite(r)

(* subscription-created events alone, on stores with a paying account *)
SpecCreated == InitWith(PaidStores) /\ [][CreatedStatusNext]_vars

(* stores in which the linked account u1 completed a checkout during its *)
(* trial: its record is active and keeps the trial bounds                *)
TrialPaidStores ==
    {[st EXCEPT !.subs[Len(st.subs)] =
                    CheckoutApply(@, [uid |-> Some("u1"), guest |-> 0, customer |-> "cus_1",
                                      subscription |-> "sub_1"])] : st \in LinkedStores}

(* my-subscription alone, at several times of the trial of an account that *)
(* is in trial, has paid during the trial, or has a paid plan and no trial *)
SpecMySubscription ==
    (InitAt(LinkedStores \cup TrialPaidStores, ResolveTimes) \/ InitWith(PlannedStores))
        /\ [][MySubscriptionNext]_vars

(* stores in which the second guest started the trial a tick after the     *)
(* first, without and with a checkout completed by account u1              *)
StaggeredStores ==
    LET d1 == NewDevice("fpA", 0)
        d2 == NewDevice("fpB", 1)
        base == [devices |-> <<d1, d2>>,
                 subs |-> <<TrialSub(1, d1), TrialSub(2, d2)>>,
                 keys |-> <<>>]
    IN  {base,
         [base EXCEPT !.subs = Append(@, SubRow(Some("u1"), Null, Some("cus_1"),
                                                Some("sub_1"), Null, "active", Null, Null))]}

(* linking alone, on guests whose trials differ *)
SpecLinkStaggered == InitAt(StaggeredStores, {1}) /\ [][LinkNext]_vars

(* an insert of the loop of LicenseKey.createMultiple fails in the store: *)
(* the error is thrown out of the loop and the handler answers 500        *)
GenerateInsertFails(r) ==
    /\ req[r].pc = "gk_insert"
    /\ budget.faults > 0
    /\ budget' = [budget EXCEPT !.faults = @ - 1]
    /\ Respond(r, "Error500", Null, 0, 0)
    /\ UNCHANGED <<now, devices, subs, keys>>

(* key generation alone, with store failures, on a store without keys *)
GenerateBatchNext ==
    \/ \E r \in Slots, p \in PlanInputs, n \in 1..MaxBatch :
          GenerateBegin(r, p, n, Null, TRUE)
    \/ \E r \in Slots : GeneratePlan(r)
    \/ \E r \in Slots, k \in KeyTexts : GenerateInsert(r, k)
    \/ \E r \in Slots : GenerateInsertFails(r)

SpecGenerateBatch == InitWith(KeylessStores) /\ [][GenerateBatchNext]_vars

(* the webhook endpoint alone, with signed and unsigned requests of every *)
(* type, on stores with a paying account                                  *)
SpecWebhook == InitWith(PaidStores) /\ [][WebhookNext]_vars

-----------------------------------------------------------------------------
(* Reading the history *)

Answers == DOMAIN log

(* answer j belongs to a request that arrived after answer i was sent *)
After(i, j) == i < j /\ log[j].begin >= i

IsTrialAnswer(i, f) == log[i].op = "startTrial" /\ log[i].a = f

(* what a start-guest-trial answer says about the trial *)
TrialBounds(v) ==
    [guest_id |-> Val(v).guest_id, trial_start |-> Val(v).trial_start,
     trial_end |-> Val(v).trial_end]

-----------------------------------------------------------------------------
(* C1: startTrial is idempotent.  For every fingerprint f, all successful    *)
(* startTrial(f) answers carry the same guest_id, trial_start and trial_end, *)
(* and a startTrial(f) made after a successful one succeeds, with the same   *)
(* three values, and inserts no Device and no Entitlement Record.            *)
C1_StartTrialIdempotent ==
    \A f \in Fingerprints : \A i, j \in Answers :
        (IsTrialAnswer(i, f) /\ IsTrialAnswer(j, f) /\ log[i].out = "ok") =>
            /\ log[j].out = "ok" => TrialBounds(log[j].view) = TrialBounds(log[i].view)
            /\ After(i, j) => log[j].out = "ok" /\ log[j].made = 0 /\ log[j].wrote = 0

(* two successive successful calls for one fingerprint, the second after the *)
(* first one created the device                                              *)
C1_Witness ==
    \E i, j \in Answers :
        /\ IsTrialAnswer(i, "fpA") /\ IsTrialAnswer(j, "fpA") /\ After(i, j)
        /\ log[i].out = "ok" /\ log[i].made = 2
        /\ log[j].out = "ok"

-----------------------------------------------------------------------------
(* C5: in every reachable state no two Devices have the same fingerprint hash *)
C5_OneDevicePerFingerprint ==
    \A i, j \in 1..Len(devices) :
        devices[i].device_id = devices[j].device_id => i = j

(* two first-time requests for one fingerprint both missed the lookup; one  *)
(* has inserted the device and the other is about to insert                 *)
C5_Witness ==
    \E r, q \in Slots :
        /\ r # q
        /\ req[r].pc = "st_create" /\ req[q].pc = "st_sub"
        /\ req[r].a = req[q].a
        /\ Len(devices) = 1

-----------------------------------------------------------------------------
(* C6: a first-time startTrial that loses the insert race answers with the  *)
(* winner's record, not with an error: no startTrial request for a valid    *)
(* fingerprint is answered 500 after its insert into devices was refused.   *)
LostInsertRace(i) ==
    /\ log[i].op = "startTrial" /\ log[i].a \in Fingerprints
    /\ log[i].out = "Error500" /\ log[i].made = 0

C6_RaceLoserGetsWinnerRecord ==
    \A i \in Answers : ~LostInsertRace(i)

-----------------------------------------------------------------------------
(* C2: every Device has trial_end - trial_start = 3 days, and no step of any *)
(* operation removes a Device or changes the trial_start or trial_end of an  *)
(* existing one, whatever the time (also after the trial has expired).       *)
TrialIsThreeDays(d) ==
    /\ Truthy(d.trial_start) /\ Truthy(d.trial_end)
    /\ Val(d.trial_end) - Val(d.trial_start) = 3 * DayTicks

C2_TrialWriteOnce ==
    [][/\ Len(devices') >= Len(devices)
       /\ \A i \in 1..Len(devices') : TrialIsThreeDays(devices'[i])
       /\ \A i \in 1..Len(devices) :
            /\ devices'[i].trial_start = devices[i].trial_start
            /\ devices'[i].trial_end = devices[i].trial_end]_vars

(* a device whose trial has expired was linked, and a startTrial for its    *)
(* fingerprint was answered after the expiry                                *)
C2_Witness ==
    \E i \in Answers, d \in 1..Len(devices) :
        /\ log[i].op = "startTrial" /\ log[i].out = "ok"
        /\ Val(log[i].view).guest_id = d
        /\ ~Val(log[i].view).is_trial_active
        /\ Truthy(devices[d].linked_uid)
        /\ now >= Val(devices[d].trial_end)

-----------------------------------------------------------------------------
(* C3: of the redeem attempts on one license key, concurrent or not, at     *)
(* most one succeeds (the others observe AlreadyRedeemed), and the key is   *)
(* bound to the device of the successful attempt.                           *)
RedeemedOk(k) ==
    {i \in Answers : log[i].op = "redeem" /\ log[i].a = k /\ log[i].out = "ok"}

C3_ConcurrentRedeemOnce ==
    \A k \in KeyTexts :
        /\ Cardinality(RedeemedOk(k)) <= 1
        /\ \A i \in RedeemedOk(k) :
             keys[KeyGetByKey(k)].bound_device_id = Some(log[i].g)

-----------------------------------------------------------------------------
(* C7: a redeem attempt that finds redeemed_at set on the key answers       *)
(* AlreadyRedeemed, whatever single_use says, and its step changes neither  *)
(* the license keys nor the Entitlement Records.                            *)
StoredKey(r) == keys[KeyGetByKey(req[r].a)]

Answered(out) == Len(log') = Len(log) + 1 /\ log'[Len(log')].out = out

C7_RedeemedNeverAgain ==
    [][\A r \in Slots :
         (/\ req[r].pc = "rd_get" /\ req'[r] # req[r]
          /\ KeyGetByKey(req[r].a) # 0
          /\ StoredKey(r).redeemed_at # Null)
         => (Answered("AlreadyRedeemed") /\ keys' = keys /\ subs' = subs)]_vars

(* a key that is not single_use was redeemed, and a later attempt on it was *)
(* answered AlreadyRedeemed                                                 *)
C7_Witness ==
    \E i, j \in Answers :
        /\ After(i, j)
        /\ log[i].op = "redeem" /\ log[j].op = "redeem" /\ log[i].a = log[j].a
        /\ log[i].out = "ok" /\ log[j].out = "AlreadyRedeemed"
        /\ ~keys[KeyGetByKey(log[i].a)].single_use

-----------------------------------------------------------------------------
(* C8: while a license key is unredeemed and its expires_at is in the past, *)
(* a redeem attempt that reads the key or reaches LicenseKey.redeem is      *)
(* answered Expired, and no step of a redeem attempt changes the key.       *)
ExpiredUnredeemed(k, t) ==
    k.redeemed_at = Null /\ k.expires_at # Null /\ Val(k.expires_at) < t

C8_ExpiredKeyNeverRedeems ==
    [][\A r \in Slots :
         (/\ req[r].op = "redeem" /\ req'[r] # req[r]
          /\ KeyGetByKey(req[r].a) # 0
          /\ ExpiredUnredeemed(StoredKey(r), now))
         => /\ keys' = keys /\ subs' = subs
            /\ req[r].pc \in {"rd_get", "rd_redeem"} => Answered("Expired")]_vars

(* an attempt on an expired, never redeemed key was answered Expired, and   *)
(* the key is still unredeemed and unbound                                  *)
C8_Witness ==
    \E i \in Answers :
        /\ log[i].op = "redeem" /\ log[i].out = "Expired"
        /\ KeyGetByKey(log[i].a) # 0
        /\ ExpiredUnredeemed(keys[KeyGetByKey(log[i].a)], now)
        /\ keys[KeyGetByKey(log[i].a)].bound_device_id = Null
        /\ keys[KeyGetByKey(log[i].a)].bound_uid = Null

-----------------------------------------------------------------------------
(* C4: of the link requests for one device, concurrent or not, at most one  *)
(* succeeds, and the device's linked_account is the account of the          *)
(* successful request.                                                      *)
LinkedOk(g) ==
    {i \in Answers : log[i].op = "link" /\ log[i].g = g /\ log[i].out = "ok"}

C4_ConcurrentLinkOnce ==
    \A g \in 1..Len(devices) :
        /\ Cardinality(LinkedOk(g)) <= 1
        /\ \A i \in LinkedOk(g) : devices[g].linked_uid = log[i].u

-----------------------------------------------------------------------------
(* C9: when every other link request for a device arrives after the answer  *)
(* to the first one, the first link succeeds, each of the others fails with *)
(* AlreadyLinked without writing, and the device's linked_account is the    *)
(* first account.                                                           *)
IsLinkAnswer(i, g) == log[i].op = "link" /\ log[i].g = g

(* no other link request for device g overlaps the one answered by i, or    *)
(* precedes it                                                              *)
FirstLinkAlone(i, g) ==
    /\ \A j \in Answers \ {i} : IsLinkAnswer(j, g) => After(i, j)
    /\ \A r \in Slots : (req[r].op = "link" /\ req[r].g = g) => req[r].begin >= i

C9_SecondLinkRejected ==
    \A g \in 1..Len(devices) : \A i \in Answers :
        (IsLinkAnswer(i, g) /\ FirstLinkAlone(i, g)) =>
            /\ log[i].out = "ok"
            /\ devices[g].linked_uid = log[i].u
            /\ \A j \in Answers \ {i} :
                 IsLinkAnswer(j, g) => log[j].out = "AlreadyLinked" /\ log[j].wrote = 0

(* device 1 was linked to one account and then refused to another *)
C9_Witness ==
    \E i, j \in Answers :
        /\ IsLinkAnswer(i, 1) /\ IsLinkAnswer(j, 1) /\ After(i, j)
        /\ FirstLinkAlone(i, 1)
        /\ log[i].out = "ok" /\ log[j].out = "AlreadyLinked"
        /\ log[i].u # log[j].u
        /\ devices[1].linked_uid = log[i].u

-----------------------------------------------------------------------------
(* C10: a checkout-completed event delivered again right after its first    *)
(* delivery, both deliveries processed without any other request in         *)
(* between or alongside, leaves the Entitlement Records exactly as the      *)
(* first delivery left them: no second record is created.                   *)
SameDelivery(e, r) ==
    e.op = "checkout" /\ e.a = req[r].a /\ e.g = req[r].g /\ e.u = req[r].u

(* request r redelivers the event of the last answer, which was processed   *)
(* alone, and nothing else has run since                                    *)
Redelivery(r) ==
    /\ req[r].op = "checkout"
    /\ Len(log) > 0
    /\ SameDelivery(log[Len(log)], r)
    /\ log[Len(log)].begin = Len(log) - 1
    /\ req[r].begin = Len(log)
    /\ \A q \in Slots \ {r} : req[q].pc = "idle"

C10_CheckoutReplayIdempotent ==
    [][\A r \in Slots :
         (Redelivery(r) /\ req'[r] # req[r]) => subs' = subs]_vars

(* a redelivered event has been written a second time: the last two answers *)
(* are deliveries of one event, each of which wrote a row                   *)
C10_Witness ==
    /\ Len(log) >= 2
    /\ LET i == Len(log) - 1
           j == Len(log)
       IN  /\ log[i].op = "checkout" /\ log[j].op = "checkout"
           /\ log[i].a = log[j].a /\ log[i].u = log[j].u /\ log[i].g = log[j].g
           /\ log[i].begin = i - 1 /\ log[j].begin = i
           /\ log[i].wrote = 1 /\ log[j].wrote = 1
    /\ \A q \in Slots : req[q].pc = "idle"

-----------------------------------------------------------------------------
(* C11: a subscription-updated event with external status canceled that is  *)
(* delivered again right after its first delivery, both processed alone,    *)
(* leaves the Entitlement Records exactly as the first delivery left them:  *)
(* the located record stays canceled and no record is added.                *)
CanceledUpdate(e) ==
    e # Null /\ Val(e).type = "customer.subscription.updated" /\ Val(e).status = "canceled"

(* request r redelivers the canceled update of the last answer, which was   *)
(* processed alone, and nothing else has run since                          *)
CanceledRedelivery(r) ==
    /\ req[r].pc \in {"se_get", "se_write"}
    /\ CanceledUpdate(req[r].snap)
    /\ Len(log) > 0
    /\ log[Len(log)].ev = req[r].snap
    /\ log[Len(log)].begin = Len(log) - 1
    /\ req[r].begin = Len(log)
    /\ \A q \in Slots \ {r} : req[q].pc = "idle"

C11_CanceledReplayIdempotent ==
    [][\A r \in Slots :
         (CanceledRedelivery(r) /\ req'[r] # req[r]) =>
            /\ subs' = subs
            /\ LET id == SubGetByStripeSubscriptionId(req[r].a)
               IN  id # 0 => subs[id].status = "canceled"]_vars

(* the last two answers are deliveries of one canceled update, each of      *)
(* which located the record and wrote it, and the record is canceled        *)
C11_Witness ==
    /\ Len(log) >= 2
    /\ LET i == Len(log) - 1
           j == Len(log)
       IN  /\ CanceledUpdate(log[i].ev) /\ log[j].ev = log[i].ev
           /\ log[i].begin = i - 1 /\ log[j].begin = i
           /\ log[i].wrote = 1 /\ log[j].wrote = 1
           /\ subs[SubGetByStripeSubscriptionId(log[i].a)].status = "canceled"
    /\ \A q \in Slots : req[q].pc = "idle"

-----------------------------------------------------------------------------
(* C20: the write of a subscription-updated event sets the status of the    *)
(* record that carries the event's external subscription id to the mapped   *)
(* status (active to active, past_due to past_due, canceled to canceled,    *)
(* incomplete and incomplete_expired to expired, trialing to trial, unpaid  *)
(* to expired, anything else to expired) and changes nothing else.          *)
SpecifiedStatus(status) ==
    IF status = "active" THEN "active"
    ELSE IF status = "past_due" THEN "past_due"
    ELSE IF status = "canceled" THEN "canceled"
    ELSE IF status = "trialing" THEN "trial"
    ELSE "expired"

C20_UpdatedStatusMapping ==
    [][\A r \in Slots :
         (/\ req[r].op = "customer.subscription.updated"
          /\ req[r].pc = "se_write" /\ req'[r] # req[r])
         => LET id == SubGetByStripeSubscriptionId(req[r].a)
                e == Val(req[r].snap)
            IN  /\ id # 0
                /\ subs' = [subs EXCEPT ![id].status = SpecifiedStatus(e.status)]]_vars

(* every external status, the unnamed one included, has been written to a   *)
(* record by a subscription-updated event                                   *)
C20_Witness ==
    \E i \in Answers :
        /\ log[i].op = "customer.subscription.updated" /\ log[i].wrote = 1
        /\ Val(log[i].ev).status = "paused"
        /\ Len(log) = i
        /\ subs[SubGetByStripeSubscriptionId(log[i].a)].status = "expired"

-----------------------------------------------------------------------------
(* C12: a checkout-completed event for an identity whose record carries a   *)
(* trial leaves trial_start and trial_end of every record unchanged, and a  *)
(* resolve for that identity made after the event was processed reports    *)
(* the trial bounds the device was given when its trial started.            *)
IsCheckoutAnswer(i) == log[i].op = "checkout" /\ log[i].wrote = 1

(* answers i and j are for the identity that holds the trial of device d:   *)
(* the guest d itself, or the account d is linked to                        *)
TrialIdentity(i, d) ==
    \/ log[i].u = Null /\ log[i].g = d
    \/ log[i].u # Null /\ log[i].u = devices[d].linked_uid

ReportsTrialOf(v, d) ==
    /\ Val(v).trialStart = devices[d].trial_start
    /\ Val(v).trialEnd = devices[d].trial_end

C12_CheckoutKeepsTrial ==
    /\ [](\A d \in 1..Len(devices) : \A i, j \in Answers :
            (/\ IsCheckoutAnswer(i) /\ TrialIdentity(i, d)
             /\ log[j].op = "resolve" /\ TrialIdentity(j, d) /\ After(i, j))
            => ReportsTrialOf(log[j].view, d))
    /\ [][\A r \in Slots : \A i \in 1..Len(subs) :
            (req[r].pc = "co_write" /\ req'[r] # req[r]) =>
                /\ subs'[i].trial_start = subs[i].trial_start
                /\ subs'[i].trial_end = subs[i].trial_end]_vars

(* a checkout for guest 1 was processed and a resolve for guest 1 that came *)
(* right after it was answered, all while the trial is unexpired: it says   *)
(* active and still carries the trial end                                   *)
C12_Witness ==
    \E i, j \in Answers :
        /\ IsCheckoutAnswer(i) /\ TrialIdentity(i, 1)
        /\ log[j].op = "resolve" /\ TrialIdentity(j, 1) /\ j = i + 1 /\ After(i, j)
        /\ now < Val(devices[1].trial_end)
        /\ Val(log[j].view).status = "active"
        /\ Val(log[j].view).trialEnd = devices[1].trial_end

-----------------------------------------------------------------------------
(* C13: a record with status trial resolves to trial while now < trial_end  *)
(* and to expired once now >= trial_end.  With trial_start = T and          *)
(* trial_end = T + 3 days it resolves at T + 1 day to trial with 2 days     *)
(* remaining, and at T + 4 days to expired with 0 days remaining.  Every    *)
(* answer of check-subscription and my-subscription for an identity whose   *)
(* record is in trial carries that status, and my-subscription those days.  *)
TrialRecord(s) ==
    s.status = "trial" /\ Truthy(s.trial_start) /\ Truthy(s.trial_end)

TrialStatusAt(s, t) == IF t < Val(s.trial_end) THEN "trial" ELSE "expired"

(* the row id of the record a resolve for guest g / account u reads, 0: none *)
CurrentRecord(g, u) ==
    IF Truthy(u) THEN SubGetByUid(Val(u))
    ELSE IF g \in 1..Len(devices) THEN SubGetByDeviceId(g)
    ELSE 0

ThreeDayScenario(s, t) ==
    Val(s.trial_end) - Val(s.trial_start) = 3 * DayTicks =>
        /\ t = Val(s.trial_start) + DayTicks =>
              getSubscriptionStatus(s, t) = "trial" /\ getTrialDaysRemaining(s, t) = 2
        /\ t = Val(s.trial_start) + 4 * DayTicks =>
              getSubscriptionStatus(s, t) = "expired" /\ getTrialDaysRemaining(s, t) = 0

C13_TrialResolution ==
    /\ [](\A i \in 1..Len(subs) :
            TrialRecord(subs[i]) =>
                /\ getSubscriptionStatus(subs[i], now) = TrialStatusAt(subs[i], now)
                /\ ThreeDayScenario(subs[i], now))
    /\ [][\A r \in Slots :
            (/\ req[r].op \in {"resolve", "mine"}
             /\ Len(log') = Len(log) + 1 /\ req'[r] # req[r]
             /\ CurrentRecord(req[r].g, req[r].u) # 0
             /\ TrialRecord(subs[CurrentRecord(req[r].g, req[r].u)]))
            => LET s == subs[CurrentRecord(req[r].g, req[r].u)]
                   v == Val(log'[Len(log')].view)
               IN  /\ v.status = TrialStatusAt(s, now)
                   /\ req[r].op = "mine" =>
                        /\ now = Val(s.trial_start) + DayTicks => v.trialDaysRemaining = 2
                        /\ now >= Val(s.trial_end) => v.trialDaysRemaining = 0]_vars

(* guest 1 was answered trial one day into the trial and the linked account *)
(* was answered expired with no day remaining four days after its start     *)
C13_Witness ==
    \E i, j \in Answers :
        /\ log[i].op = "resolve" /\ log[i].u = Null /\ log[i].g = 1
        /\ Val(log[i].view).status = "trial"
        /\ log[j].op = "mine" /\ After(i, j)
        /\ Val(log[j].view).status = "expired"
        /\ Val(log[j].view).trialDaysRemaining = 0
        /\ Val(log[j].view).trialEnd = devices[1].trial_end
        /\ now >= Val(devices[1].trial_start) + 4 * DayTicks

-----------------------------------------------------------------------------
(* C14: whenever check-subscription answers for an identity whose current   *)
(* Entitlement Record has status past_due or canceled, the status of the    *)
(* answer is that status.                                                   *)
ResolveAnswers(r) ==
    /\ req[r].op = "resolve"
    /\ Len(log') = Len(log) + 1 /\ req'[r] # req[r]

C14_PastDueCanceledSurfaced ==
    [][\A r \in Slots :
         (/\ ResolveAnswers(r)
          /\ CurrentRecord(req[r].g, req[r].u) # 0
          /\ subs[CurrentRecord(req[r].g, req[r].u)].status \in {"past_due", "canceled"})
         => Val(log'[Len(log')].view).status =
                subs[CurrentRecord(req[r].g, req[r].u)].status]_vars

-----------------------------------------------------------------------------
(* C15: check-subscription answers none exactly when the identity has no    *)
(* Entitlement Record; when it has one the answer is one of trial, active,  *)
(* past_due, canceled, expired.                                             *)
C15_NoneOnlyWithoutRecord ==
    [][\A r \in Slots :
         ResolveAnswers(r) =>
            LET v == Val(log'[Len(log')].view)
            IN  /\ v.status = "none" <=> CurrentRecord(req[r].g, req[r].u) = 0
                /\ CurrentRecord(req[r].g, req[r].u) # 0 =>
                      v.status \in {"trial", "active", "past_due", "canceled", "expired"}]_vars

-----------------------------------------------------------------------------
(* C16: after a successful redeem by a guest, the guest's current           *)
(* Entitlement Record has status active and the plan_id of the redeemed     *)
(* key, and a resolve for the guest made after the redeem reports active    *)
(* with that plan.                                                          *)
IsRedeemOk(i) == log[i].op = "redeem" /\ log[i].out = "ok"

RedeemedPlan(i) == Some(keys[KeyGetByKey(log[i].a)].plan_id)

C16_RedeemGrantsKeyPlan ==
    \A i \in Answers :
        IsRedeemOk(i) =>
            /\ LET id == SubGetByDeviceId(log[i].g)
               IN  /\ id # 0
                   /\ subs[id].status = "active"
                   /\ subs[id].plan_id = RedeemedPlan(i)
            /\ \A j \in Answers :
                 (/\ log[j].op = "resolve" /\ log[j].u = Null /\ log[j].g = log[i].g
                  /\ After(i, j))
                 => /\ Val(log[j].view).status = "active"
                    /\ Val(log[j].view).plan = RedeemedPlan(i)

-----------------------------------------------------------------------------
(* C17: once redeemed_at of a License Key is set, no step of any operation  *)
(* changes its redeemed_at, bound_uid or bound_device_id.                   *)
C17_RedemptionWriteOnce ==
    [][\A i \in 1..Len(keys) :
         Truthy(keys[i].redeemed_at) =>
            /\ keys'[i].redeemed_at = keys[i].redeemed_at
            /\ keys'[i].bound_uid = keys[i].bound_uid
            /\ keys'[i].bound_device_id = keys[i].bound_device_id]_vars

-----------------------------------------------------------------------------
(* C18: the write of revoke leaves the key with redeemed_at set and without *)
(* a binding; a redeem that reads a revoked key is refused; and the write   *)
(* of revoke on a key that is already revoked leaves the key as stored.     *)
Revoked(k) == Truthy(k.redeemed_at) /\ ~Truthy(k.bound_uid) /\ ~Truthy(k.bound_device_id)

C18_RevokeIdempotent ==
    [][\A r \in Slots :
         /\ (req[r].pc = "rv_revoke" /\ req'[r] # req[r]) =>
               /\ Answered("ok")
               /\ Revoked(keys'[req[r].acc[1]])
               /\ Revoked(keys[req[r].acc[1]]) => keys' = keys
         /\ (/\ req[r].pc = "rd_get" /\ req'[r] # req[r]
             /\ KeyGetByKey(req[r].a) # 0 /\ Revoked(StoredKey(r)))
            => (Answered("AlreadyRedeemed") /\ keys' = keys)]_vars

-----------------------------------------------------------------------------
(* C19: the step of link-guest that creates the record of an account which  *)
(* had none inserts one record, keyed by the account, with the device's     *)
(* trial_start, trial_end and status, and answers success with the device's *)
(* trial bounds.                                                            *)
C19_LinkCarriesTrial ==
    [][\A r \in Slots :
         (req[r].pc = "lk_create" /\ req'[r] # req[r]) =>
            LET d == devices[req[r].g]
                v == Val(log'[Len(log')].view)
            IN  /\ Len(subs') = Len(subs) + 1
                /\ \A i \in 1..Len(subs) : subs'[i] = subs[i]
                /\ subs'[Len(subs')].uid = req[r].u
                /\ subs'[Len(subs')].device_id = Null
                /\ subs'[Len(subs')].trial_start = d.trial_start
                /\ subs'[Len(subs')].trial_end = d.trial_end
                /\ subs'[Len(subs')].status = d.subscription_status
                /\ Answered("ok")
                /\ v.trialStart = d.trial_start /\ v.trialEnd = d.trial_end
                /\ v.status = IF now < Val(d.trial_end) THEN "trial" ELSE "expired"]_vars

(* account u2, which had no record, linked device 2 and its current record  *)
(* carries the trial of device 2                                            *)
C19_Witness ==
    \E i \in Answers :
        /\ log[i].op = "link" /\ log[i].out = "ok" /\ log[i].made = 1
        /\ log[i].u = Some("u2") /\ log[i].g = 2
        /\ devices[2].linked_uid = Some("u2")
        /\ SubGetByUid("u2") # 0
        /\ subs[SubGetByUid("u2")].trial_start = devices[2].trial_start
        /\ subs[SubGetByUid("u2")].trial_end = devices[2].trial_end
        /\ subs[SubGetByUid("u2")].status = "trial"
        /\ Val(log[i].view).trialEnd = devices[2].trial_end

-----------------------------------------------------------------------------
(* C21: subscription-deleted forces the status of the located record to     *)
(* canceled, invoice-payment-succeeded to active and invoice-payment-failed *)
(* to past_due, whatever the status was; no other field of that record and  *)
(* no other record, Device or License Key changes.                          *)
ForcedStatus(type) ==
    IF type = "customer.subscription.deleted" THEN "canceled"
    ELSE IF type = "invoice.payment_succeeded" THEN "active"
    ELSE "past_due"

(* the step answers a request of one of the forcing events *)
ForcingAnswer ==
    /\ Len(log') = Len(log) + 1
    /\ log'[Len(log')].op \in ForcingEventTypes

-----------------------------------------------------------------------------
(* C22: a webhook request whose signature does not verify is rejected, no   *)
(* handler is started for it, and every Device, Entitlement Record and      *)
(* License Key is left as it was.                                           *)
UnverifiedReceive ==
    \E r \in Slots, sig \in Signatures \ {"valid"} : WebhookReceive(r, sig)

C22_UnverifiedEventNoEffect ==
    [][UnverifiedReceive =>
          /\ devices' = devices /\ subs' = subs /\ keys' = keys
          /\ req' = req
          /\ Len(log') = Len(log) + 1
          /\ log'[Len(log')].out = "InvalidSignature"
          /\ log'[Len(log')].wrote = 0]_vars

(* an unverified checkout and an unverified deletion of the subscription of *)
(* u1 were both rejected, and the record of u1 is still active and the only *)
(* one of an account                                                        *)
C22_Witness ==
    /\ \E i, j \in Answers :
          /\ log[i].op = "checkout.session.completed" /\ log[i].out = "InvalidSignature"
          /\ log[j].op = "customer.subscription.deleted" /\ log[j].out = "InvalidSignature"
    /\ \E st \in PaidStores : subs = st.subs /\ devices = st.devices /\ keys = st.keys
    /\ \A q \in Slots : req[q].pc = "idle"

-----------------------------------------------------------------------------
(* C23: a verified webhook event of a type the router has no handler for is *)
(* acknowledged as success; it starts no handler and leaves the store       *)
(* unchanged.                                                               *)
UnhandledReceive ==
    \E r \in Slots, t \in UnhandledTypes : WebhookStripe(r, "valid", t, [id |-> "evt_1"])

C23_UnknownTypeAcknowledged ==
    [][UnhandledReceive =>
          /\ devices' = devices /\ subs' = subs /\ keys' = keys
          /\ req' = req
          /\ Len(log') = Len(log) + 1
          /\ log'[Len(log')].op \in UnhandledTypes
          /\ log'[Len(log')].out = "ok"]_vars

(* two verified events of unhandled types were acknowledged on a store that *)
(* is as it was                                                             *)
C23_Witness ==
    /\ \E i, j \in Answers :
          /\ log[i].op = "customer.created" /\ log[i].out = "ok"
          /\ log[j].op = "invoice.created" /\ log[j].out = "ok"
    /\ \E st \in PaidStores : subs = st.subs /\ devices = st.devices /\ keys = st.keys

-----------------------------------------------------------------------------
(* C24: when the lookup of a subscription-updated, subscription-deleted or  *)
(* invoice event finds that no Entitlement Record carries its external      *)
(* subscription id, the event is acknowledged as success and no record is   *)
(* created or changed.                                                      *)
NoRecordNames(subscriptionId) ==
    \A i \in 1..Len(subs) : subs[i].stripe_subscription_id # Some(subscriptionId)

(* request r of a status event looks its record up in this step *)
StatusLookup(r) ==
    /\ req[r].op \in StatusEventTypes
    /\ req[r].acc = <<>>
    /\ req'[r] # req[r]

C24_MissingRecordNoOp ==
    [][\A r \in Slots :
         (StatusLookup(r) /\ NoRecordNames(req[r].a)) =>
            /\ subs' = subs /\ devices' = devices /\ keys' = keys
            /\ req'[r] = Idle
            /\ Len(log') = Len(log) + 1
            /\ log'[Len(log')].op = req[r].op
            /\ log'[Len(log')].out = "ok"
            /\ log'[Len(log')].wrote = 0 /\ log'[Len(log')].made = 0]_vars

(* events of all four types for subscription sub_9, which no record names, *)
(* were acknowledged without a write                                       *)
C24_Witness ==
    /\ \A q \in Slots : req[q].pc = "idle"
    /\ NoRecordNames("sub_9")
    /\ \E i, j \in Answers :
          /\ i # j
          /\ log[i].op \in {"customer.subscription.updated", "customer.subscription.deleted"}
          /\ log[j].op \in InvoiceEventTypes
          /\ log[i].a = "sub_9" /\ log[j].a = "sub_9"
          /\ log[i].out = "ok" /\ log[j].out = "ok"
          /\ log[i].wrote = 0 /\ log[j].wrote = 0
    /\ Len(subs) = 3

-----------------------------------------------------------------------------
(* C25: a startTrial, redeem or link request that ends in a validation,     *)
(* not-found or conflict outcome has written nothing, and the step that     *)
(* answers it leaves every Device, Entitlement Record and License Key as it *)
(* was.                                                                     *)
RefusedOutcomes ==
    {"ValidationError", "InvalidKey", "AlreadyRedeemed", "Expired", "InvalidGuest",
     "AlreadyLinked", "DeviceNotFound"}

Refused(e) ==
    e.op \in {"startTrial", "redeem", "link"} /\ e.out \in RefusedOutcomes

C25_RefusalsMutateNothing ==
    /\ [](\A i \in Answers : Refused(log[i]) => log[i].wrote = 0 /\ log[i].made = 0)
    /\ [][(Len(log') = Len(log) + 1 /\ Refused(log'[Len(log')]))
            => devices' = devices /\ subs' = subs /\ keys' = keys]_vars

(* a redeem for an unknown guest and a link of a device that is linked were *)
(* both refused: the key is unredeemed and the device is linked as it was   *)
C25_Witness ==
    /\ \E i, j \in Answers :
          /\ log[i].op = "redeem" /\ log[i].out = "InvalidGuest" /\ log[i].a = "UTM-AAAA"
          /\ log[j].op = "link" /\ log[j].out = "AlreadyLinked" /\ log[j].u = Some("u2")
    /\ \E st \in SoloLinkedStores :
          devices = st.devices /\ subs = st.subs /\ keys = st.keys

-----------------------------------------------------------------------------
(* C26: a generateKeys(plan, n, opts) call that returns for a known plan    *)
(* has stored n License Key records, each unredeemed and unbound when it is *)
(* stored, and returns n pairwise-distinct plaintexts, each of which looks  *)
(* up (by hash) its own record of that plan.  The first redeem attempt of a *)
(* known guest with a returned plaintext succeeds, and an attempt made      *)
(* after a successful one returns AlreadyRedeemed.  As stated, for any      *)
(* opts: also for an expiry that has passed when the key is redeemed.       *)
IsGenerated(i) == log[i].op = "generate" /\ log[i].out = "ok"

(* the plaintexts answer e of generateKeys returned *)
Returned(e) == {Val(e.view)[x] : x \in 1..Len(Val(e.view))}

(* the answer of a generateKeys call describes what the key table holds *)
BatchStored(e, table) ==
    /\ Len(Val(e.view)) = e.g
    /\ e.made = e.g
    /\ Cardinality(Returned(e)) = e.g
    /\ \A k \in Returned(e) :
          \E id \in 1..Len(table) :
             /\ table[id].key = hashKey(k)
             /\ table[id].plan_id = e.a
             /\ \A other \in 1..Len(table) : table[other].key = hashKey(k) => other = id

(* rows enter the key table one at a time, unredeemed and unbound *)
StoredUnredeemed ==
    Len(keys') # Len(keys) =>
        /\ Len(keys') = Len(keys) + 1
        /\ keys'[Len(keys')].redeemed_at = Null
        /\ keys'[Len(keys')].bound_uid = Null
        /\ keys'[Len(keys')].bound_device_id = Null

(* answer j is a redeem attempt of a known guest with plaintext k, made *)
(* after generateKeys returned k in answer i                            *)
AttemptOf(i, j, k) ==
    /\ IsGenerated(i) /\ k \in Returned(log[i])
    /\ log[j].op = "redeem" /\ log[j].a = k /\ After(i, j)
    /\ log[j].g \in 1..Len(devices)

(* no other attempt with k was made before answer j was sent *)
FirstAttempt(j, k) ==
    /\ \A x \in Answers \ {j} : (log[x].op = "redeem" /\ log[x].a = k) => After(j, x)
    /\ \A q \in Slots : (req[q].op = "redeem" /\ req[q].a = k) => req[q].begin >= j

(* an attempt with k had succeeded before the request of answer j arrived *)
LaterAttempt(j, k) ==
    \E x \in Answers : log[x].op = "redeem" /\ log[x].a = k /\ log[x].out = "ok" /\ After(x, j)

(* the key of plaintext k has no expiry, or one that lies ahead *)
Unexpired(k) ==
    \E id \in 1..Len(keys) : keys[id].key = hashKey(k) /\ ~isExpired(keys[id], now)

RedeemsOnce(i, j, k) ==
    /\ FirstAttempt(j, k) => log[j].out = "ok"
    /\ LaterAttempt(j, k) => log[j].out = "AlreadyRedeemed"

-----------------------------------------------------------------------------
(* C27: an /admin request (generate keys, revoke key, list keys, stats)     *)
(* whose x-admin-key is missing or differs from the configured              *)
(* ADMIN_API_KEY is answered Unauthorized; it starts no handler and leaves  *)
(* every Device, Entitlement Record and License Key as it was.  The check   *)
(* lets a header pass only if it equals the configured key, whatever that   *)
(* key is, also when none is configured.                                    *)
UnauthorizedReceive ==
    \E r \in Slots, h \in AdminKeyInputs \ {ADMIN_API_KEY} : AdminReceive(r, h)

C27_AdminRequiresKey ==
    /\ [](\A h \in AdminKeyInputs, e \in {"", ADMIN_API_KEY} : adminAuth(h, e) => h = e)
    /\ [][UnauthorizedReceive =>
            /\ devices' = devices /\ subs' = subs /\ keys' = keys
            /\ req' = req
            /\ Len(log') = Len(log) + 1
            /\ log'[Len(log')].op \in AdminOps
            /\ log'[Len(log')].out = "Unauthorized"]_vars

(* a generation and a revocation without the configured key were both *)
(* refused, and the key table holds the one unredeemed key it held     *)
C27_Witness ==
    /\ \E i, j \in Answers :
          /\ log[i].op = "generate" /\ log[i].out = "Unauthorized"
          /\ log[j].op = "revoke" /\ log[j].out = "Unauthorized"
    /\ Len(keys) = 1 /\ keys[1].redeemed_at = Null

-----------------------------------------------------------------------------
(* C28: a check-subscription request that carries an identity token the    *)
(* identity gateway rejects is answered Unauthorized; no resolve is started *)
(* for it, neither for its guest_id nor as a request without identity.      *)
InvalidTokenCheck ==
    \E r \in Slots, g \in GuestInputs : CheckSubscription(r, g, "invalid-token")

C28_InvalidTokenUnauthorized ==
    [][InvalidTokenCheck =>
          /\ req' = req
          /\ Len(log') = Len(log) + 1
          /\ log'[Len(log')].op = "resolve"
          /\ log'[Len(log')].out = "Unauthorized"]_vars

-----------------------------------------------------------------------------
(* C29: a redemption by an authenticated caller (valid token, no guest id)  *)
(* succeeds for a valid key, binds the key to the account id of the caller  *)
(* and creates the active record of the account; a redemption by a guest    *)
(* binds the key to the device id.  In SpecRedeemLicense every redemption   *)
(* without a guest id comes from the caller authenticated as u1, and a key  *)
(* is valid for a request unless the handler answered that it is unknown,   *)
(* redeemed or expired, or the insert of the record failed.                 *)

RedeemInvalid == {"InvalidKey", "AlreadyRedeemed", "Expired", "Error500"}

BoundToAccount(key, uid) ==
    /\ KeyGetByKey(key) # 0
    /\ keys[KeyGetByKey(key)].bound_uid = Some(uid)
    /\ \E i \in 1..Len(subs) : subs[i].uid = Some(uid) /\ subs[i].status = "active"

BoundToDevice(key, guest) ==
    /\ KeyGetByKey(key) # 0
    /\ keys[KeyGetByKey(key)].bound_device_id = Some(guest)
    /\ keys[KeyGetByKey(key)].bound_uid = Null
    /\ \E i \in 1..Len(subs) :
          subs[i].device_id = Some(guest) /\ subs[i].uid = Null /\ subs[i].status = "active"

C29_AuthenticatedRedeemBinds ==
    \A j \in Answers :
        log[j].op = "redeem" /\ log[j].out \notin RedeemInvalid =>
            IF log[j].g = 0
            THEN log[j].out = "ok" /\ BoundToAccount(log[j].a, "u1")
            ELSE log[j].out = "ok" /\ BoundToDevice(log[j].a, log[j].g)

(* the guest half of C29 alone *)
C29_GuestRedeemBinds ==
    \A j \in Answers :
        log[j].op = "redeem" /\ log[j].g # 0 /\ log[j].out = "ok" =>
            BoundToDevice(log[j].a, log[j].g)

C29_GuestWitness ==
    \E j \in Answers : log[j].op = "redeem" /\ log[j].g = 1 /\ log[j].out = "ok"

-----------------------------------------------------------------------------
(* C30: whenever startTrial answers a device with a successful trial view,  *)
(* a record with that device_id, status trial and the trial bounds of the   *)
(* view exists, also when an earlier startTrial of the same device failed   *)
(* after it had created the Device.                                         *)

TrialRecordOf(view) ==
    \E i \in 1..Len(subs) :
        /\ subs[i].device_id = Some(view.guest_id)
        /\ subs[i].status = "trial"
        /\ subs[i].trial_start = view.trial_start
        /\ subs[i].trial_end = view.trial_end

(* judged when no request is in flight, so that the record a concurrent     *)
(* startTrial of the same device is about to insert counts as existing      *)
C30_TrialViewHasRecord ==
    (\A r \in Slots : req[r].pc = "idle") =>
        \A j \in Answers :
            log[j].op = "startTrial" /\ log[j].out = "ok" =>
                TrialRecordOf(Val(log[j].view))

(* the case of the earlier failure: the first startTrial of the device was  *)
(* answered 500 after the Device was created, the next one is answered with *)
(* the trial view, and no request is in flight                              *)
C30_AfterFailureNoRecord ==
    \E i, j \in Answers :
        /\ i < j /\ log[j].begin >= i
        /\ log[i].op = "startTrial" /\ log[i].out = "Error500" /\ log[i].made = 1
        /\ log[j].op = "startTrial" /\ log[j].a = log[i].a /\ log[j].out = "ok"
        /\ ~TrialRecordOf(Val(log[j].view))
        /\ \A r \in Slots : req[r].pc = "idle"

-----------------------------------------------------------------------------
(* C31: link never lowers the entitlement of an account: if the current     *)
(* record of the account is active before a step of link-guest, it is       *)
(* active after it, and a backfill changes trial_start and trial_end of the *)
(* record and nothing else.                                                 *)

CurrentOf(table, uid) ==
    LET hit == {i \in 1..Len(table) : table[i].uid = Some(uid)}
    IN  IF hit = {} THEN 0 ELSE MaxOf(hit)

AccountActive(table, uid) ==
    CurrentOf(table, uid) # 0 /\ table[CurrentOf(table, uid)].status = "active"

C31_LinkKeepsActive ==
    [][\A u \in Accounts :
         /\ AccountActive(subs, u) => AccountActive(subs', u)
         /\ \A i \in 1..Len(subs) :
               subs'[i] = [subs[i] EXCEPT !.trial_start = subs'[i].trial_start,
                                          !.trial_end = subs'[i].trial_end]]_vars

(* a link to the paying account has backfilled its record *)
C31_Witness ==
    \E j \in Answers :
        /\ log[j].op = "link" /\ log[j].out = "ok" /\ log[j].wrote = 2 /\ log[j].made = 0
        /\ log[j].u = Some("u1")

-----------------------------------------------------------------------------
(* C32: if the current record of a device is active when the device is      *)
(* linked, every resolve of the account that arrives after the successful   *)
(* link reports active.  In SpecLinkEntitled no step changes the record of  *)
(* a device, so the record of the device is judged in the current state.    *)

DeviceActive(g) ==
    SubGetByDeviceId(g) # 0 /\ subs[SubGetByDeviceId(g)].status = "active"

ResolvedAfterLink(j, k) ==
    /\ log[j].op = "link" /\ log[j].out = "ok" /\ DeviceActive(log[j].g)
    /\ log[k].op = "resolve" /\ log[k].out = "ok" /\ log[k].u = log[j].u
    /\ log[k].begin >= j

C32_LinkCarriesEntitlement ==
    \A j, k \in Answers :
        ResolvedAfterLink(j, k) => Val(log[k].view).status = "active"

(* the entitled device was linked to an account that had no record, and *)
(* the account was resolved afterwards                                   *)
C32_Witness ==
    \E j, k \in Answers :
        ResolvedAfterLink(j, k) /\ log[j].made = 1 /\ log[j].g = 1

-----------------------------------------------------------------------------
(* C33: a checkout was started for a guest device and the device is linked  *)
(* to an account before the checkout-completed event has been processed:    *)
(* once the link and the event have both completed, in either order, every  *)
(* resolve of the account that arrives afterwards reports active.           *)

LinkedDuringCheckout(j, c) ==
    /\ log[j].op = "link" /\ log[j].out = "ok"
    /\ log[c].op = "checkout" /\ log[c].g = log[j].g /\ log[c].g # 0 /\ log[c].wrote = 1
    /\ log[j].begin < c

ResolvedAfterBoth(j, c, k) ==
    /\ LinkedDuringCheckout(j, c)
    /\ log[k].op = "resolve" /\ log[k].out = "ok" /\ log[k].u = log[j].u
    /\ log[k].begin >= j /\ log[k].begin >= c

C33_LinkCheckoutRaceActive ==
    \A j, c, k \in Answers :
        ResolvedAfterBoth(j, c, k) => Val(log[k].view).status = "active"

(* both orders of completion are resolved afterwards *)
C33_Witness ==
    /\ \E j, c, k \in Answers : ResolvedAfterBoth(j, c, k) /\ j < c
    /\ ~\E i \in Answers : log[i].op = "checkout" /\ Truthy(log[i].u)

C33_WitnessEventFirst ==
    /\ \E j, c, k \in Answers : ResolvedAfterBoth(j, c, k) /\ c < j
    /\ ~\E i \in Answers : log[i].op = "checkout" /\ Truthy(log[i].u)

-----------------------------------------------------------------------------
(* C34: for the checkout of u1 (customer cus_1, subscription sub_1, price   *)
(* of pro_monthly), the checkout-completed and the subscription-created     *)
(* events delivered one after the other, in either order, leave the same    *)
(* record: the one the order checkout-completed, subscription-created       *)
(* leaves (active, pro_monthly, cus_1, sub_1).                              *)

CompletedDelivery(i) ==
    log[i].op = "checkout" /\ log[i].a = "sub_1" /\ log[i].u = Some("u1")

CreatedDelivery(i) ==
    /\ log[i].op = "customer.subscription.created"
    /\ log[i].ev = Some([customer |-> "cus_1", subscription |-> "sub_1",
                         price |-> Some("price_monthly_pro")])

(* the two events are all that was delivered, the second after the first *)
(* was answered, and nothing is in flight                                *)
DeliveredInOrder(first, second) ==
    /\ Len(log) = 2 /\ log[2].begin >= 1
    /\ \A r \in Slots : req[r].pc = "idle"
    /\ IF first = "completed" THEN CompletedDelivery(1) ELSE CreatedDelivery(1)
    /\ IF second = "completed" THEN CompletedDelivery(2) ELSE CreatedDelivery(2)

BillingOutcome(uid) ==
    IF SubGetByUid(uid) = 0 THEN Null
    ELSE LET s == subs[SubGetByUid(uid)]
         IN  Some([status |-> s.status, plan_id |-> s.plan_id,
                   stripe_customer_id |-> s.stripe_customer_id,
                   stripe_subscription_id |-> s.stripe_subscription_id])

CompletedThenCreatedOutcome ==
    Some([status |-> "active", plan_id |-> Some("pro_monthly"),
          stripe_customer_id |-> Some("cus_1"), stripe_subscription_id |-> Some("sub_1")])

C34_CompletedFirst ==
    DeliveredInOrder("completed", "created")
        => BillingOutcome("u1") = CompletedThenCreatedOutcome

C34_Witness == DeliveredInOrder("completed", "created")

-----------------------------------------------------------------------------
(* C35: a redelivery of the checkout-completed event of subscription sub_1, *)
(* processed after subscription-created has set the plan and subscription-  *)
(* deleted has set canceled, does not change the record: its status stays   *)
(* canceled and its plan_id stays set.                                      *)

CanceledWithPlan(i) ==
    /\ subs[i].stripe_subscription_id = Some("sub_1")
    /\ subs[i].status = "canceled"
    /\ Truthy(subs[i].plan_id)

RedeliveryAnswered ==
    /\ Len(log') = Len(log) + 1
    /\ log'[Len(log')].op = "checkout" /\ log'[Len(log')].a = "sub_1"

-----------------------------------------------------------------------------
(* C36: when a subscription-created event for a known price has been        *)
(* processed, the record that carries the external subscription id of the   *)
(* event has the status the mapping of subscription-updated gives for the   *)
(* status of the event.                                                     *)

CreatedAnswered ==
    /\ Len(log') = Len(log) + 1
    /\ log'[Len(log')].op = "customer.subscription.created"
    /\ Truthy(log'[Len(log')].ev)

C36_WitnessOtherCustomer ==
    \E j \in Answers :
        /\ log[j].op = "customer.subscription.created" /\ log[j].wrote = 0
        /\ Truthy(log[j].ev) /\ Val(log[j].ev).customer = "cus_9"

-----------------------------------------------------------------------------
(* C37: redemption is all-or-nothing: whenever no request is in flight, a   *)
(* key with redeemed_at set and bound to an identity has an active record   *)
(* of that identity for the plan of the key, also after the store failed    *)
(* part-way through a redemption.                                           *)

GrantedRecord(k) ==
    \E i \in 1..Len(subs) :
        /\ subs[i].uid = k.bound_uid
        /\ subs[i].device_id = k.bound_device_id
        /\ subs[i].status = "active"
        /\ subs[i].plan_id = Some(LicensePlan(k.plan_id))

C37_RedeemAllOrNothing ==
    (\A r \in Slots : req[r].pc = "idle") =>
        \A i \in 1..Len(keys) :
            (/\ Truthy(keys[i].redeemed_at)
             /\ (Truthy(keys[i].bound_uid) \/ Truthy(keys[i].bound_device_id)))
                => GrantedRecord(keys[i])

(* a redemption was answered 500 after it had written the key *)
C37_Witness ==
    /\ \A r \in Slots : req[r].pc = "idle"
    /\ \E j \in Answers :
          log[j].op = "redeem" /\ log[j].out = "Error500" /\ log[j].wrote = 1

-----------------------------------------------------------------------------
(* C38: for every record and time, the answer of resolve carries            *)
(* trial_days_remaining = max(0, ceil((trial_end - now) / 1 day)), computed *)
(* from trial_end and now alone whatever the status of the record, and      *)
(* is_active is true exactly when the derived status is active.  No step of *)
(* SpecMySubscription moves the clock, so now is the time of every answer.  *)

DaysFromTrialEnd(trialEnd, t) ==
    IF ~Truthy(trialEnd) THEN 0
    ELSE IF CeilDiv(Val(trialEnd) - t, DayTicks) > 0
         THEN CeilDiv(Val(trialEnd) - t, DayTicks) ELSE 0

RecordAnswers ==
    {j \in Answers : log[j].op = "mine" /\ log[j].out = "ok"
                        /\ "trialDaysRemaining" \in DOMAIN Val(log[j].view)}

C38_DaysRemainingFromTrialEnd ==
    \A j \in RecordAnswers :
        LET view == Val(log[j].view)
        IN  /\ view.trialDaysRemaining = DaysFromTrialEnd(view.trialEnd, now)
            /\ view.isActive <=> view.status = "active"

(* the half of C38 about is_active alone *)
C38_IsActiveIffStatusActive ==
    \A j \in RecordAnswers :
        Val(log[j].view).isActive <=> Val(log[j].view).status = "active"

(* an active record whose trial has not ended was resolved *)
C38_Witness ==
    \E j \in RecordAnswers :
        LET view == Val(log[j].view)
        IN  view.status = "active" /\ Truthy(view.trialEnd) /\ Val(view.trialEnd) > now

-----------------------------------------------------------------------------
(* C39: the trial of an account is granted once: once the current record of *)
(* an account has trial bounds, no step of link-guest changes the           *)
(* trial_start or the trial_end the account resolves to.                    *)

TrialBoundsOf(table, uid) ==
    <<table[CurrentOf(table, uid)].trial_start, table[CurrentOf(table, uid)].trial_end>>

HasTrialBounds(table, uid) ==
    CurrentOf(table, uid) # 0 /\ Truthy(table[CurrentOf(table, uid)].trial_start)

C39_AccountTrialOnce ==
    [][\A u \in Accounts :
         HasTrialBounds(subs, u) => TrialBoundsOf(subs', u) = TrialBoundsOf(subs, u)]_vars

(* the same for a link that arrives when no other request is in flight *)
C39_LaterLinkKeepsTrial ==
    [][\A u \in Accounts :
         (/\ HasTrialBounds(subs, u)
          /\ \A r \in Slots : req[r].pc # "idle" => req[r].begin = Len(log))
            => TrialBoundsOf(subs', u) = TrialBoundsOf(subs, u)]_vars

(* two devices were linked to one account *)
C39_Witness ==
    \E j, k \in Answers :
        /\ j < k /\ log[j].op = "link" /\ log[k].op = "link"
        /\ log[j].out = "ok" /\ log[k].out = "ok"
        /\ log[j].u = log[k].u /\ log[j].g # log[k].g

-----------------------------------------------------------------------------
(* C40: generateKeys is all-or-nothing: whenever no request is in flight,   *)
(* every stored key was returned as plaintext by a successful generateKeys, *)
(* and every successful generateKeys returned as many plaintexts as were    *)
(* asked for, each of them stored.  The stores of SpecGenerateBatch start   *)
(* without keys, so every stored key belongs to a batch.                    *)

ReturnedPlaintexts ==
    UNION {{Val(log[j].view)[x] : x \in 1..Len(Val(log[j].view))} :
              j \in {a \in Answers : log[a].op = "generate" /\ log[a].out = "ok"}}

C40_GenerateAllOrNothing ==
    (\A r \in Slots : req[r].pc = "idle") =>
        /\ \A i \in 1..Len(keys) : \E k \in ReturnedPlaintexts : keys[i].key = hashKey(k)
        /\ \A j \in Answers :
              log[j].op = "generate" /\ log[j].out = "ok" =>
                  /\ Len(Val(log[j].view)) = log[j].g
                  /\ \A x \in 1..log[j].g : KeyGetByKey(Val(log[j].view)[x]) # 0

(* the half of C40 about successful batches alone *)
C40_SuccessfulBatchComplete ==
    \A j \in Answers :
        log[j].op = "generate" /\ log[j].out = "ok" =>
            /\ Len(Val(log[j].view)) = log[j].g
            /\ \A x \in 1..log[j].g : KeyGetByKey(Val(log[j].view)[x]) # 0

(* a batch failed after it had stored a key *)
C40_Witness ==
    /\ \A r \in Slots : req[r].pc = "idle"
    /\ \E j \in Answers :
          log[j].op = "generate" /\ log[j].out = "Error500" /\ log[j].made >= 1

====
